---- MODULE Spec2Model ----
(***************************************************************************)
(* Dashboard Centre d'Appels d'Urgence: the loading and aggregation        *)
(* pipeline (utils/data_loader.py, utils/data_processor.py,                *)
(* utils/helpers.py, config/settings.py) and the upload handler of         *)
(* pages/4_Donnees_Brutes.py.                                              *)
(*                                                                         *)
(* Strings that the code takes apart (week labels) are sequences of        *)
(* one-character strings, so that split, replace, int() and the            *)
(* lexicographic order of str are computed, not assumed.  Accents are      *)
(* dropped from display labels.                                            *)
(***************************************************************************)
EXTENDS Integers, Sequences, FiniteSets, TLC

\* ------------------------------------------------------------------------
\* Bounds of the model
\* ------------------------------------------------------------------------
MaxLignes == 2        \* rows of a daily-calls source file
MaxPeriodes == 2      \* length of the week list given to comparer_periodes
NbSessions == 2       \* browser sessions on the upload page
MaxHorloge == 1       \* seconds the wall clock may advance
MaxPlages == 2        \* rows (date ranges) of a calendar sheet
MaxCaracteres == 4    \* characters of a value given to extraire_numero_semaine

\* pandas' missing value in a numeric cell, and NaT in a date cell
NaN == -1
NaT == 0

\* ------------------------------------------------------------------------
\* config/settings.py
\* ------------------------------------------------------------------------
CATEGORIES_APPELS ==
  << "CSU_JOUR", "PHARMACIE_JOUR", "STRUCTURE_REFERENCE_JOUR",
     "PROGRAMME_SANTE_JOUR", "RUMEURS_JOUR", "PROBLEMATIQUE_SANTE_JOUR",
     "URGENCE_MEDICALE_JOUR", "GESTION_MALADIE_JOUR", "AUTRES_JOUR",
     "SOCIAL_JOUR", "SECURITAIRE_JOUR", "PSYCHO_JOUR", "SIGNAUX_SFE_JOUR",
     "AUTRES_SANTE_PUBLIQUE_JOUR", "CAS_SUSPECTS_JOUR", "FARCES_JOUR",
     "HARCELEMENTS_JOUR" >>

LABELS_CATEGORIES ==
  ("CSU_JOUR" :> "Couverture Sante Universelle") @@
  ("PHARMACIE_JOUR" :> "Informations Pharmacie") @@
  ("STRUCTURE_REFERENCE_JOUR" :> "Structures de Reference") @@
  ("PROGRAMME_SANTE_JOUR" :> "Programmes de Sante") @@
  ("RUMEURS_JOUR" :> "Rumeurs Sanitaires") @@
  ("PROBLEMATIQUE_SANTE_JOUR" :> "Problematiques de Sante") @@
  ("URGENCE_MEDICALE_JOUR" :> "Urgences Medicales") @@
  ("GESTION_MALADIE_JOUR" :> "Gestion de Maladies") @@
  ("AUTRES_JOUR" :> "Autres Appels") @@
  ("SOCIAL_JOUR" :> "Questions Sociales") @@
  ("SECURITAIRE_JOUR" :> "Questions Securitaires") @@
  ("PSYCHO_JOUR" :> "Soutien Psychologique") @@
  ("SIGNAUX_SFE_JOUR" :> "Signaux de Surveillance Epidemiologique") @@
  ("AUTRES_SANTE_PUBLIQUE_JOUR" :> "Autres Sante Publique") @@
  ("CAS_SUSPECTS_JOUR" :> "Cas Suspects") @@
  ("FARCES_JOUR" :> "Appels Farces") @@
  ("HARCELEMENTS_JOUR" :> "Appels de Harcelement")

\* the keys of REGROUPEMENTS, in the order the dict is written
GROUPES ==
  << "Renseignements Sante", "Assistances Medicales",
     "Assistances Psycho-Sociales", "Signaux", "Autres Appels" >>

\* the groups when HARCELEMENTS_JOUR is listed in 'Signaux' as well
REGROUPEMENTS_Chevauchant ==
  ("Renseignements Sante" :>
      << "CSU_JOUR", "PHARMACIE_JOUR", "STRUCTURE_REFERENCE_JOUR",
         "PROGRAMME_SANTE_JOUR", "RUMEURS_JOUR", "PROBLEMATIQUE_SANTE_JOUR" >>) @@
  ("Assistances Medicales" :>
      << "URGENCE_MEDICALE_JOUR", "GESTION_MALADIE_JOUR", "AUTRES_JOUR" >>) @@
  ("Assistances Psycho-Sociales" :>
      << "SOCIAL_JOUR", "SECURITAIRE_JOUR", "PSYCHO_JOUR" >>) @@
  ("Signaux" :>
      << "SIGNAUX_SFE_JOUR", "AUTRES_SANTE_PUBLIQUE_JOUR", "CAS_SUSPECTS_JOUR",
         "HARCELEMENTS_JOUR" >>) @@
  ("Autres Appels" :> << "FARCES_JOUR", "HARCELEMENTS_JOUR" >>)

REGROUPEMENTS ==
  ("Renseignements Sante" :>
      << "CSU_JOUR", "PHARMACIE_JOUR", "STRUCTURE_REFERENCE_JOUR",
         "PROGRAMME_SANTE_JOUR", "RUMEURS_JOUR", "PROBLEMATIQUE_SANTE_JOUR" >>) @@
  ("Assistances Medicales" :>
      << "URGENCE_MEDICALE_JOUR", "GESTION_MALADIE_JOUR", "AUTRES_JOUR" >>) @@
  ("Assistances Psycho-Sociales" :>
      << "SOCIAL_JOUR", "SECURITAIRE_JOUR", "PSYCHO_JOUR" >>) @@
  ("Signaux" :>
      << "SIGNAUX_SFE_JOUR", "AUTRES_SANTE_PUBLIQUE_JOUR", "CAS_SUSPECTS_JOUR" >>) @@
  ("Autres Appels" :> << "FARCES_JOUR", "HARCELEMENTS_JOUR" >>)

LABELS_REGROUPEMENTS ==
  ("Renseignements Sante" :> "Renseignements Sante") @@
  ("Assistances Medicales" :> "Assistances Medicales") @@
  ("Assistances Psycho-Sociales" :> "Assistances Psycho-Sociales") @@
  ("Signaux" :> "Signaux d'Alerte") @@
  ("Autres Appels" :> "Autres Appels")

\* ------------------------------------------------------------------------
\* Generic helpers (Python / pandas primitives)
\* ------------------------------------------------------------------------
Image(s) == {s[i] : i \in 1..Len(s)}

CatSet == Image(CATEGORIES_APPELS)

RECURSIVE SommeSeq(_)
SommeSeq(s) == IF s = << >> THEN 0 ELSE Head(s) + SommeSeq(Tail(s))

\* DataFrame.sort_values(col) with the default kind='quicksort': the result
\* is ordered by the key column cle, rows with equal keys come in an order
\* the sort does not guarantee.
TrisPossibles(s, cle) ==
  LET n == Len(s)
      Perms == {p \in [1..n -> 1..n] : \A i, j \in 1..n : i # j => p[i] # p[j]}
  IN { [i \in 1..n |-> s[p[i]]] :
         p \in {q \in Perms : \A i \in 1..n : i < n => cle[q[i]] <= cle[q[i + 1]]} }

\* ord() of the characters that occur in week labels
ORD ==
  ("0" :> 48) @@ ("1" :> 49) @@ ("2" :> 50) @@ ("3" :> 51) @@ ("4" :> 52) @@
  ("5" :> 53) @@ ("6" :> 54) @@ ("7" :> 55) @@ ("8" :> 56) @@ ("9" :> 57) @@
  ("S" :> 83) @@ ("_" :> 95) @@ ("s" :> 115)

CHIFFRES == << "0", "1", "2", "3", "4", "5", "6", "7", "8", "9" >>

\* str(n) for n >= 0
RECURSIVE StrEntier(_)
StrEntier(n) ==
  IF n < 10 THEN << CHIFFRES[n + 1] >>
  ELSE StrEntier(n \div 10) \o << CHIFFRES[(n % 10) + 1] >>

\* a < b for Python str (code-point order, a proper prefix is smaller)
RECURSIVE StrInf(_, _)
StrInf(a, b) ==
  IF b = << >> THEN FALSE
  ELSE IF a = << >> THEN TRUE
  ELSE IF ORD[Head(a)] # ORD[Head(b)] THEN ORD[Head(a)] < ORD[Head(b)]
  ELSE StrInf(Tail(a), Tail(b))

\* sorted(set of str): the group keys of a pandas groupby (sort=True)
TriLex(S) ==
  CHOOSE t \in [1..Cardinality(S) -> S] :
    \A i, j \in 1..Cardinality(S) : i < j => StrInf(t[i], t[j])

Min(S) == CHOOSE x \in S : \A y \in S : x <= y
Max(S) == CHOOSE x \in S : \A y \in S : y <= x

\* ------------------------------------------------------------------------
\* Source files: the inputs of the program
\* ------------------------------------------------------------------------
COL_TOTAL == "TOTAL_APPELS_JOUR"
COL_SEMAINE == "Semaine epidemiologique"

\* Dates are days of the year 2025 (1 = 1 January 2025, a Wednesday);
\* 61 = Sunday 2 March (ISO week 9), 62 = Monday 3 March (ISO week 10).
AnneeDesDates == << "2", "0", "2", "5" >>

\* Series.dt.isocalendar().week of a day of 2025
SemaineISO(d) == IF d >= 363 THEN 1 ELSE ((d + 1) \div 7) + 1

\* the week label a source file carries when it has the column
EtiquetteSource == << "S", "1", "_", "2", "0", "2", "5" >>

\* A generated source row: value v in category c, 0 in the other
\* categories, t in the TOTAL_APPELS_JOUR cell.
LigneSource(d, c, v, t) ==
  [DATE |-> d, cats |-> [k \in CatSet |-> IF k = c THEN v ELSE 0],
   TOTAL |-> t, Semaine |-> EtiquetteSource]

ColonnesRequises == {"DATE"} \cup CatSet
ColonnesCompletes == ColonnesRequises \cup {COL_TOTAL, COL_SEMAINE}

SeqBornees(S, n) == UNION { [1..k -> S] : k \in 0..n }

\* the workbooks of at most MaxLignes rows with the given columns whose
\* cells are drawn from the given sets
Fichiers(colonnes, dates, cats, cellules) ==
  UNION { { [existe |-> TRUE, colonnes |-> cols, lignes |-> l] :
              l \in SeqBornees(
                      { LigneSource(d, c, v, t) :
                          d \in dates, c \in cats, v \in cellules,
                          t \in IF COL_TOTAL \in cols THEN cellules ELSE {NaN} },
                      MaxLignes) } :
          cols \in colonnes }

\* Workbooks given to the aggregation functions: rows in date order, every
\* date valid, every cell filled, with or without a TOTAL_APPELS_JOUR
\* column of their own.
Chronologique(l) == \A i \in 1..Len(l) : i < Len(l) => l[i].DATE <= l[i + 1].DATE

FichiersSource ==
  { f \in Fichiers({ColonnesRequises, ColonnesCompletes}, {61, 62},
                   {"CSU_JOUR", "URGENCE_MEDICALE_JOUR"}, {0, 1}) :
      Chronologique(f.lignes) }

\* Workbooks given to the loader: empty cells, unparseable dates, and
\* sheets without RUMEURS_JOUR or without DATE and HARCELEMENTS_JOUR as
\* well.
FichiersChargement ==
  Fichiers({ColonnesRequises, ColonnesCompletes, ColonnesRequises \ {"RUMEURS_JOUR"},
            ColonnesCompletes \ {"DATE", "HARCELEMENTS_JOUR"}},
           {NaT, 61, 62}, {"CSU_JOUR"}, {NaN, 0, 1})

\* calendar sheets (Week_No, Date_Start, Date_End): Sunday-to-Saturday week
\* 10, and Monday-to-Sunday week 10 (2 March is then not covered)
CalendriersSource ==
  { << [Week_No |-> 10, Date_Start |-> 61, Date_End |-> 67] >>,
    << [Week_No |-> 10, Date_Start |-> 62, Date_End |-> 68] >> }

\* A calendar workbook: 'colonnes' is the header of its first sheet (what
\* the upload page validates), 'table1' tells whether it has the sheet
\* 'Table 1' with the nine columns the loader renames, 'lignes' are the
\* rows of that sheet.
CalendrierFichier(l) == [existe |-> TRUE, colonnes |-> {}, table1 |-> TRUE, lignes |-> l]

CalendrierAbsent == [existe |-> FALSE, colonnes |-> {}, table1 |-> FALSE, lignes |-> << >>]

\* calendar sheets of at most MaxPlages ranges that may overlap, be empty
\* (end before start) or leave dates uncovered
CalendriersChevauchants ==
  SeqBornees([Week_No : {9, 10}, Date_Start : {61, 62}, Date_End : {61, 62, 63}],
             MaxPlages)

\* daily-calls workbooks with dates inside and outside these calendars
FichiersCalendrier ==
  { f \in Fichiers({ColonnesRequises, ColonnesCompletes}, {61, 62, 64}, {"CSU_JOUR"}, {1}) :
      Chronologique(f.lignes) }

\* ------------------------------------------------------------------------
\* utils/data_loader.py
\* ------------------------------------------------------------------------
\* 'S' + str(week) + '_' + str(year)
EtiquetteISO(d) == << "S" >> \o StrEntier(SemaineISO(d)) \o << "_" >> \o AnneeDesDates

\* the check when DATE is left out of colonnes_requises
ColonnesManquantes_SansDate(cols) ==
  SelectSeq(CATEGORIES_APPELS, LAMBDA c : c \notin cols)

\* lines 75-76: the required columns the sheet lacks, in the order of
\* colonnes_requises
ColonnesManquantes(cols) ==
  SelectSeq(<< "DATE" >> \o CATEGORIES_APPELS, LAMBDA c : c \notin cols)

\* Series.fillna(0).astype(int) of one cell
FillnaZero(v) == IF v = NaN THEN 0 ELSE v

SommeCategories(cats) ==
  SommeSeq([i \in 1..Len(CATEGORIES_APPELS) |-> cats[CATEGORIES_APPELS[i]]])

\* the row when the fillna(0) of the category cells is left out
LigneChargee_SansFillna(cols, r) ==
  [DATE |-> r.DATE,
   Semaine |-> IF COL_SEMAINE \in cols THEN r.Semaine ELSE EtiquetteISO(r.DATE),
   cats |-> r.cats,
   TOTAL |-> IF COL_TOTAL \notin cols
               THEN SommeCategories([k \in CatSet |-> FillnaZero(r.cats[k])])
               ELSE FillnaZero(r.TOTAL)]

\* one row of the frame after lines 94-110 of charger_donnees_appels
LigneChargee(cols, r) ==
  LET cats == [k \in CatSet |-> FillnaZero(r.cats[k])]
  IN [DATE |-> r.DATE,
      Semaine |-> IF COL_SEMAINE \in cols THEN r.Semaine ELSE EtiquetteISO(r.DATE),
      cats |-> cats,
      TOTAL |-> IF COL_TOTAL \notin cols THEN SommeCategories(cats)
                ELSE FillnaZero(r.TOTAL)]

\* charger_donnees_appels: the outcome is an error or one of the frames the
\* final sort_values('DATE') can produce
charger_donnees_appels(f) ==
  LET manq == ColonnesManquantes(f.colonnes)
      valides == SelectSeq(f.lignes, LAMBDA r : r.DATE # NaT)
      lignes == [i \in 1..Len(valides) |-> LigneChargee(f.colonnes, valides[i])]
  IN IF ~f.existe
       THEN { [ok |-> FALSE, erreur |-> "FileNotFoundError", manquantes |-> << >>, lignes |-> << >>] }
     ELSE IF manq # << >>
       THEN { [ok |-> FALSE, erreur |-> "ValueError", manquantes |-> manq, lignes |-> << >>] }
     ELSE IF lignes = << >>
       \* df['DATE'].min().strftime(...) on an empty frame: NaT has no strftime
       THEN { [ok |-> FALSE, erreur |-> "ValueError", manquantes |-> << >>, lignes |-> << >>] }
     ELSE { [ok |-> TRUE, erreur |-> "", manquantes |-> << >>, lignes |-> t] :
              t \in TrisPossibles(lignes, [i \in 1..Len(lignes) |-> lignes[i].DATE]) }

\* drop_duplicates with keep='last'
drop_duplicates_dernier(s) ==
  LET garde == {i \in 1..Len(s) : \A j \in (i + 1)..Len(s) : s[j].DATE # s[i].DATE}
      RECURSIVE Prendre(_)
      Prendre(i) == IF i > Len(s) THEN << >>
                    ELSE IF i \in garde THEN << s[i] >> \o Prendre(i + 1)
                    ELSE Prendre(i + 1)
  IN Prendre(1)

\* no deduplication at all
drop_duplicates_aucun(s) == s

\* DataFrame.drop_duplicates(subset=['DATE'], keep='first')
drop_duplicates(s) ==
  LET garde == {i \in 1..Len(s) : \A j \in 1..(i - 1) : s[j].DATE # s[i].DATE}
      RECURSIVE Prendre(_)
      Prendre(i) == IF i > Len(s) THEN << >>
                    ELSE IF i \in garde THEN << s[i] >> \o Prendre(i + 1)
                    ELSE Prendre(i + 1)
  IN Prendre(1)

\* lines 185-203: one row per date of every range, in file order
RECURSIVE ExpanserCalendrier(_)
ExpanserCalendrier(cal) ==
  IF cal = << >> THEN << >>
  ELSE LET row == Head(cal)
           n == row.Date_End - row.Date_Start + 1
       IN [i \in 1..(IF n > 0 THEN n ELSE 0) |->
             [DATE |-> row.Date_Start + i - 1,
              Semaine |-> << "S" >> \o StrEntier(row.Week_No) \o << "_", "2", "0", "2", "5" >>,
              Week_No |-> row.Week_No]]
          \o ExpanserCalendrier(Tail(cal))

\* the calendar when drop_duplicates keeps the last row of a date
charger_calendrier_epidemiologique_dernier(cal) ==
  LET expanded == ExpanserCalendrier(cal.lignes)
  IN IF ~cal.existe
       THEN [ok |-> FALSE, erreur |-> "FileNotFoundError", lignes |-> << >>]
     ELSE IF ~cal.table1
       THEN [ok |-> FALSE, erreur |-> "ValueError", lignes |-> << >>]
     ELSE IF expanded = << >>
       THEN [ok |-> FALSE, erreur |-> "KeyError", lignes |-> << >>]
       ELSE [ok |-> TRUE, erreur |-> "", lignes |-> drop_duplicates_dernier(expanded)]

\* charger_calendrier_epidemiologique: FileNotFoundError when the workbook
\* is missing (lines 156-160), ValueError when read_excel finds no sheet
\* 'Table 1' or the renaming of line 173 does not get nine columns
charger_calendrier_epidemiologique(cal) ==
  LET expanded == ExpanserCalendrier(cal.lignes)
  IN IF ~cal.existe
       THEN [ok |-> FALSE, erreur |-> "FileNotFoundError", lignes |-> << >>]
     ELSE IF ~cal.table1
       THEN [ok |-> FALSE, erreur |-> "ValueError", lignes |-> << >>]
     ELSE IF expanded = << >>
       \* drop_duplicates(subset=['DATE']) on a frame without columns
       THEN [ok |-> FALSE, erreur |-> "KeyError", lignes |-> << >>]
       ELSE [ok |-> TRUE, erreur |-> "", lignes |-> drop_duplicates(expanded)]

\* the label when the fillna of lines 257-262 is left out
SemaineDeDate_SansRepli(cal, d) ==
  IF \E i \in 1..Len(cal) : cal[i].DATE = d
    THEN cal[CHOOSE i \in 1..Len(cal) : cal[i].DATE = d].Semaine
    ELSE << >>

\* the week label of a date after the left merge with the calendar and the
\* fillna with the locally computed ISO label (lines 249-262)
SemaineDeDate(cal, d) ==
  IF \E i \in 1..Len(cal) : cal[i].DATE = d
    THEN cal[CHOOSE i \in 1..Len(cal) : cal[i].DATE = d].Semaine
    ELSE EtiquetteISO(d)

SemainesDe(df) == {df[i].Semaine : i \in 1..Len(df)}

LignesDeSemaine(df, w) == SelectSeq(df, LAMBDA r : r.Semaine = w)

\* sum of one category column over the rows of a frame
SommeColonne(df, c) == SommeSeq([i \in 1..Len(df) |-> df[i].cats[c]])

SommeTotal(df) == SommeSeq([i \in 1..Len(df) |-> df[i].TOTAL])

\* df_appels_unique.groupby('Semaine epidemiologique').agg(agg_dict),
\* lines 276-305: one row per week label, in the order of the sorted keys
AgregerHebdo(df) ==
  LET cles == TriLex(SemainesDe(df))
  IN [k \in 1..Len(cles) |->
        LET g == LignesDeSemaine(df, cles[k])
            dates == {g[i].DATE : i \in 1..Len(g)}
        IN [Semaine |-> cles[k],
            cats |-> [c \in CatSet |-> SommeColonne(g, c)],
            date_debut |-> Min(dates),
            date_fin |-> Max(dates),
            nb_jours |-> Len(g),
            TOTAL_APPELS_SEMAINE |-> SommeTotal(g)]]

DonneesVides ==
  [etat |-> "vide", erreur |-> "", manquantes |-> << >>, appels |-> << >>,
   calendrier |-> << >>, hebdomadaire |-> << >>, doublons |-> 0,
   statistiques |-> [nb_jours |-> 0, nb_semaines |-> 0, total_appels |-> 0,
                     date_min |-> NaT, date_max |-> NaT]]

\* charger_toutes_les_donnees: the set of its outcomes.  'doublons' is the
\* count printed at line 270; 'appels' is the frame BEFORE drop_duplicates
\* (line 340).
charger_toutes_les_donnees(f, c) ==
  { IF ~ra.ok
      THEN [DonneesVides EXCEPT !.etat = "erreur", !.erreur = ra.erreur,
                                !.manquantes = ra.manquantes]
    ELSE LET rc == charger_calendrier_epidemiologique(c)
         IN IF ~rc.ok
              THEN [DonneesVides EXCEPT !.etat = "erreur", !.erreur = rc.erreur]
            ELSE LET df_appels ==
                       [i \in 1..Len(ra.lignes) |->
                          [ra.lignes[i] EXCEPT
                             !.Semaine = SemaineDeDate(rc.lignes, ra.lignes[i].DATE)]]
                     df_appels_unique == drop_duplicates(df_appels)
                     df_hebdo == AgregerHebdo(df_appels_unique)
                     dates == {df_appels_unique[i].DATE : i \in 1..Len(df_appels_unique)}
                 IN [etat |-> "charge", erreur |-> "", manquantes |-> << >>,
                     appels |-> df_appels,
                     calendrier |-> rc.lignes,
                     hebdomadaire |-> df_hebdo,
                     doublons |-> Len(df_appels) - Len(df_appels_unique),
                     statistiques |->
                       [nb_jours |-> Len(df_appels_unique),
                        nb_semaines |-> Len(df_hebdo),
                        total_appels |-> SommeTotal(df_appels_unique),
                        date_min |-> Min(dates),
                        date_max |-> Max(dates)]]
    : ra \in charger_donnees_appels(f) }

\* ------------------------------------------------------------------------
\* utils/helpers.py
\* ------------------------------------------------------------------------
EstChiffre(ch) == \E i \in 1..Len(CHIFFRES) : CHIFFRES[i] = ch

\* int(s) for a string of decimal digits
RECURSIVE IntDeChiffres(_)
IntDeChiffres(s) ==
  IF s = << >> THEN 0
  ELSE IntDeChiffres(SubSeq(s, 1, Len(s) - 1)) * 10
       + ((CHOOSE i \in 1..Len(CHIFFRES) : CHIFFRES[i] = s[Len(s)]) - 1)

\* the extraction when the letter S is not removed before int()
extraire_numero_semaine_avec_S(semaine_label) ==
  IF \E i \in 1..Len(semaine_label) : semaine_label[i] = "_"
    THEN LET pos == Min({i \in 1..Len(semaine_label) : semaine_label[i] = "_"})
             numero == SubSeq(semaine_label, 1, pos - 1)
         IN IF numero # << >> /\ \A i \in 1..Len(numero) : EstChiffre(numero[i])
              THEN IntDeChiffres(numero)
              ELSE 0
    ELSE 0

\* extraire_numero_semaine: split('_')[0], the letters S and s removed,
\* int(); 0 when there is no '_' or int() raises ValueError
extraire_numero_semaine(semaine_label) ==
  IF \E i \in 1..Len(semaine_label) : semaine_label[i] = "_"
    THEN LET pos == Min({i \in 1..Len(semaine_label) : semaine_label[i] = "_"})
             partie_semaine == SubSeq(semaine_label, 1, pos - 1)
             numero == SelectSeq(partie_semaine, LAMBDA ch : ch # "S" /\ ch # "s")
         IN IF numero # << >> /\ \A i \in 1..Len(numero) : EstChiffre(numero[i])
              THEN IntDeChiffres(numero)
              ELSE 0
    ELSE 0

\* sorted(semaines, key=extraire_numero_semaine): Python's sort is stable,
\* labels with the same number keep the order of the list
TriParNumero(semaines) ==
  LET n == Len(semaines)
      Avant(i, j) ==
        \/ extraire_numero_semaine(semaines[i]) < extraire_numero_semaine(semaines[j])
        \/ /\ extraire_numero_semaine(semaines[i]) = extraire_numero_semaine(semaines[j])
           /\ i < j
      p == CHOOSE q \in [1..n -> 1..n] :
             \A i, j \in 1..n : i < j => Avant(q[i], q[j])
  IN [i \in 1..n |-> semaines[p[i]]]

\* None, where a week label is expected
AucuneSemaine == << >>

\* obtenir_derniere_semaine, on the column 'Semaine epidemiologique' of
\* df_hebdo
obtenir_derniere_semaine(semaines) ==
  IF Len(semaines) = 0 THEN AucuneSemaine
  ELSE TriParNumero(semaines)[Len(semaines)]

\* obtenir_semaine_precedente
obtenir_semaine_precedente(semaines, semaine_actuelle) ==
  LET semaines_triees == TriParNumero(semaines)
  IN IF Len(semaines) = 0 THEN AucuneSemaine
     ELSE IF semaine_actuelle \notin Image(semaines_triees) THEN AucuneSemaine
     ELSE LET index_actuel ==
                Min({i \in 1..Len(semaines_triees) : semaines_triees[i] = semaine_actuelle})
          IN IF index_actuel > 1 THEN semaines_triees[index_actuel - 1] ELSE AucuneSemaine

\* ------------------------------------------------------------------------
\* utils/data_processor.py
\* ------------------------------------------------------------------------
\* round(num / den, 2) in hundredths, for num >= 0 and den > 0 (round half
\* to even; a tie needs a denominator that is a multiple of 8)
Arrondi2(num, den) ==
  LET q == (100 * num) \div den
      r == (100 * num) % den
  IN IF 2 * r < den THEN q
     ELSE IF 2 * r > den THEN q + 1
     ELSE IF q % 2 = 0 THEN q ELSE q + 1

\* round(num / den * 100, 2) in hundredths of a percent, num of any sign
ArrondiPourcent(num, den) ==
  IF num >= 0 THEN Arrondi2(100 * num, den) ELSE 0 - Arrondi2(100 * (0 - num), den)

\* the rows of df_hebdo before the sort (lines 85-96): one row per week in
\* the order of the sorted group keys; the weekly total is the sum of the
\* renamed category columns
GrouperParSemaine(df) ==
  LET cles == TriLex(SemainesDe(df))
  IN [k \in 1..Len(cles) |->
        LET g == LignesDeSemaine(df, cles[k])
            cats == [c \in CatSet |-> SommeColonne(g, c)]
        IN [Semaine |-> cles[k],
            cats |-> cats,
            TOTAL_APPELS_SEMAINE |-> SommeCategories(cats)]]

\* the weekly frame left in the order of the group keys
calculer_totaux_hebdomadaires_sans_tri(df) == {GrouperParSemaine(df)}

\* calculer_totaux_hebdomadaires: the frames the final sort_values on the
\* week number can return
calculer_totaux_hebdomadaires(df) ==
  LET df_hebdo == GrouperParSemaine(df)
      _sort_key == [i \in 1..Len(df_hebdo) |-> extraire_numero_semaine(df_hebdo[i].Semaine)]
  IN TrisPossibles(df_hebdo, _sort_key)

\* calculer_regroupements: label of the group -> total of its categories
calculer_regroupements(df) ==
  LET Lab == {LABELS_REGROUPEMENTS[GROUPES[i]] : i \in 1..Len(GROUPES)}
      GroupeDe(l) == CHOOSE g \in Image(GROUPES) : LABELS_REGROUPEMENTS[g] = l
  IN [l \in Lab |->
        SommeSeq([i \in 1..Len(REGROUPEMENTS[GroupeDe(l)]) |->
                    SommeColonne(df, REGROUPEMENTS[GroupeDe(l)][i])])]

\* the dict when the test is valeur >= 0
CategoriesNonNulles_AvecZeros(df) ==
  LET CatDe(l) == CHOOSE c \in CatSet : LABELS_CATEGORIES[c] = l
  IN [l \in {LABELS_CATEGORIES[c] : c \in CatSet} |-> SommeColonne(df, CatDe(l))]

\* the 'categories' dict of calculer_totaux_semaine (lines 151-157)
CategoriesNonNulles(df) ==
  LET retenues == {c \in CatSet : SommeColonne(df, c) > 0}
      CatDe(l) == CHOOSE c \in retenues : LABELS_CATEGORIES[c] = l
  IN [l \in {LABELS_CATEGORIES[c] : c \in retenues} |-> SommeColonne(df, CatDe(l))]

ResultatVide == [op |-> "aucun", args |-> << >>, val |-> << >>]

\* calculer_totaux_semaine without the raise of lines 144-145
calculer_totaux_semaine_sans_erreur(df, semaine) ==
  LET df_semaine == LignesDeSemaine(df, semaine)
      total == SommeTotal(df_semaine)
      nb_jours == Len(df_semaine)
      dates == {df_semaine[i].DATE : i \in 1..Len(df_semaine)}
  IN [ok |-> TRUE, erreur |-> "",
      semaine |-> semaine,
      total |-> total,
      categories |-> CategoriesNonNulles(df_semaine),
      regroupements |-> calculer_regroupements(df_semaine),
      nb_jours |-> nb_jours,
      moyenne_jour |-> IF nb_jours > 0 THEN Arrondi2(total, nb_jours) ELSE 0,
      date_debut |-> IF dates = {} THEN NaT ELSE Min(dates),
      date_fin |-> IF dates = {} THEN NaT ELSE Max(dates)]

\* calculer_totaux_semaine
calculer_totaux_semaine(df, semaine) ==
  LET df_semaine == LignesDeSemaine(df, semaine)
      total == SommeTotal(df_semaine)
      nb_jours == Len(df_semaine)
      dates == {df_semaine[i].DATE : i \in 1..Len(df_semaine)}
  IN IF Len(df_semaine) = 0
       THEN [ok |-> FALSE, erreur |-> "ValueError"]
       ELSE [ok |-> TRUE, erreur |-> "",
             semaine |-> semaine,
             total |-> total,
             categories |-> CategoriesNonNulles(df_semaine),
             regroupements |-> calculer_regroupements(df_semaine),
             nb_jours |-> nb_jours,
             moyenne_jour |-> Arrondi2(total, nb_jours),
             date_debut |-> Min(dates),
             date_fin |-> Max(dates)]

\* dict.get(key, 0)
Get(d, k) == IF k \in DOMAIN d THEN d[k] ELSE 0

\* top-level relative variation (line 220), in hundredths of a percent
VariationRelativeTotale(variation_abs, total_precedent) ==
  IF total_precedent # 0 THEN ArrondiPourcent(variation_abs, total_precedent) ELSE 0

\* the entry's relative variation with the fallback of line 220
VariationRelativeEntree_SinonZero(var_abs, val_precedent) ==
  IF val_precedent # 0 THEN ArrondiPourcent(var_abs, val_precedent) ELSE 0

\* relative variation of a category or group entry (lines 240, 259)
VariationRelativeEntree(var_abs, val_precedent) ==
  IF val_precedent # 0 THEN ArrondiPourcent(var_abs, val_precedent) ELSE 10000

\* the classification when the test is abs(variation_rel) <= 2
Tendance_SeuilInclus(variation_abs, total_precedent) ==
  LET a == IF variation_abs >= 0 THEN variation_abs ELSE 0 - variation_abs
  IN IF total_precedent = 0 THEN "stable"
     ELSE IF 100 * a <= 2 * total_precedent THEN "stable"
     ELSE IF variation_abs > 0 THEN "hausse"
     ELSE "baisse"

\* lines 223-228: abs(variation_rel) < 2 on the unrounded quotient
Tendance(variation_abs, total_precedent) ==
  LET a == IF variation_abs >= 0 THEN variation_abs ELSE 0 - variation_abs
  IN IF total_precedent = 0 THEN "stable"
     ELSE IF 100 * a < 2 * total_precedent THEN "stable"
     ELSE IF variation_abs > 0 THEN "hausse"
     ELSE "baisse"

\* the entries of variations_categories / variations_regroupements
VariationsEntrees(actuel, precedent, Labels) ==
  [l \in {k \in Labels : Get(actuel, k) > 0 \/ Get(precedent, k) > 0} |->
     [actuel |-> Get(actuel, l),
      precedent |-> Get(precedent, l),
      variation_absolue |-> Get(actuel, l) - Get(precedent, l),
      variation_relative |->
        VariationRelativeEntree(Get(actuel, l) - Get(precedent, l), Get(precedent, l))]]

\* calculer_variations
calculer_variations(df, semaine_actuelle, semaine_precedente) ==
  LET totaux_actuel == calculer_totaux_semaine(df, semaine_actuelle)
      totaux_precedent == calculer_totaux_semaine(df, semaine_precedente)
  IN IF ~totaux_actuel.ok \/ ~totaux_precedent.ok
       THEN [ok |-> FALSE, erreur |-> "ValueError"]
       ELSE LET variation_abs == totaux_actuel.total - totaux_precedent.total
            IN [ok |-> TRUE, erreur |-> "",
                semaine_actuelle |-> semaine_actuelle,
                semaine_precedente |-> semaine_precedente,
                total_actuel |-> totaux_actuel.total,
                total_precedent |-> totaux_precedent.total,
                variation_absolue |-> variation_abs,
                variation_relative |->
                  VariationRelativeTotale(variation_abs, totaux_precedent.total),
                tendance |-> Tendance(variation_abs, totaux_precedent.total),
                categories |->
                  VariationsEntrees(totaux_actuel.categories, totaux_precedent.categories,
                                    {LABELS_CATEGORIES[c] : c \in CatSet}),
                regroupements |->
                  VariationsEntrees(totaux_actuel.regroupements,
                                    totaux_precedent.regroupements,
                                    {LABELS_REGROUPEMENTS[g] : g \in Image(GROUPES)})]

\* the rows comparer_periodes builds in its loop over REGROUPEMENTS
\* (lines 634-651); 'valeurs' holds the week columns of the row, a week
\* listed twice being one dict key
LignesRegroupements(df, liste_semaines) ==
  [k \in 1..Len(GROUPES) |->
     [Categorie |-> LABELS_REGROUPEMENTS[GROUPES[k]],
      valeurs |->
        [w \in Image(liste_semaines) |->
           SommeSeq([i \in 1..Len(REGROUPEMENTS[GROUPES[k]]) |->
                       SommeColonne(LignesDeSemaine(df, w), REGROUPEMENTS[GROUPES[k]][i])])]]]

\* the TOTAL row appended only when a week was asked for
comparer_periodes_total_si_semaines(df, liste_semaines) ==
  LET donnees_comparaison == LignesRegroupements(df, liste_semaines)
      ligne_totaux ==
        [Categorie |-> "TOTAL",
         valeurs |->
           [w \in Image(liste_semaines) |->
              SommeSeq([k \in 1..Len(donnees_comparaison) |->
                          donnees_comparaison[k].valeurs[w]])]]
  IN IF liste_semaines = << >> THEN donnees_comparaison
     ELSE donnees_comparaison \o << ligne_totaux >>

\* comparer_periodes: the group rows followed by the TOTAL row
comparer_periodes(df, liste_semaines) ==
  LET donnees_comparaison == LignesRegroupements(df, liste_semaines)
      ligne_totaux ==
        [Categorie |-> "TOTAL",
         valeurs |->
           [w \in Image(liste_semaines) |->
              SommeSeq([k \in 1..Len(donnees_comparaison) |->
                          donnees_comparaison[k].valeurs[w]])]]
  IN donnees_comparaison \o << ligne_totaux >>

\* the conversion when the first test is num_semaine < 4
semaine_to_mois_strict(num_semaine) ==
  IF num_semaine < 4 THEN "Janvier"
  ELSE IF num_semaine <= 8 THEN "Fevrier"
  ELSE IF num_semaine <= 13 THEN "Mars"
  ELSE IF num_semaine <= 17 THEN "Avril"
  ELSE IF num_semaine <= 22 THEN "Mai"
  ELSE IF num_semaine <= 26 THEN "Juin"
  ELSE IF num_semaine <= 30 THEN "Juillet"
  ELSE IF num_semaine <= 35 THEN "Aout"
  ELSE IF num_semaine <= 39 THEN "Septembre"
  ELSE IF num_semaine <= 43 THEN "Octobre"
  ELSE IF num_semaine <= 48 THEN "Novembre"
  ELSE "Decembre"

\* semaine_to_mois (lines 498-523)
semaine_to_mois(num_semaine) ==
  IF num_semaine <= 4 THEN "Janvier"
  ELSE IF num_semaine <= 8 THEN "Fevrier"
  ELSE IF num_semaine <= 13 THEN "Mars"
  ELSE IF num_semaine <= 17 THEN "Avril"
  ELSE IF num_semaine <= 22 THEN "Mai"
  ELSE IF num_semaine <= 26 THEN "Juin"
  ELSE IF num_semaine <= 30 THEN "Juillet"
  ELSE IF num_semaine <= 35 THEN "Aout"
  ELSE IF num_semaine <= 39 THEN "Septembre"
  ELSE IF num_semaine <= 43 THEN "Octobre"
  ELSE IF num_semaine <= 48 THEN "Novembre"
  ELSE "Decembre"

ordre_mois ==
  << "Janvier", "Fevrier", "Mars", "Avril", "Mai", "Juin",
     "Juillet", "Aout", "Septembre", "Octobre", "Novembre", "Decembre" >>

\* regrouper_par_mois: one row per month that a week of df_hebdo falls in,
\* with the sums of the weekly columns; the rows of groupby('Mois') are
\* sorted on ordre_mois.index, a key no two rows share
regrouper_par_mois(df_hebdo) ==
  LET MoisDe(r) == semaine_to_mois(extraire_numero_semaine(r.Semaine))
      ordres == {CHOOSE i \in 1..Len(ordre_mois) : ordre_mois[i] = MoisDe(df_hebdo[k]) :
                   k \in 1..Len(df_hebdo)}
      Nieme(k) == CHOOSE i \in ordres : Cardinality({j \in ordres : j < i}) = k - 1
  IN [k \in 1..Cardinality(ordres) |->
        LET g == SelectSeq(df_hebdo, LAMBDA r : MoisDe(r) = ordre_mois[Nieme(k)])
        IN [Mois |-> ordre_mois[Nieme(k)],
            TOTAL_APPELS_SEMAINE |->
              SommeSeq([i \in 1..Len(g) |-> g[i].TOTAL_APPELS_SEMAINE]),
            cats |-> [c \in CatSet |-> SommeSeq([i \in 1..Len(g) |-> g[i].cats[c]])]]]

\* ------------------------------------------------------------------------
\* utils/pptx_generator_minsante.py
\* ------------------------------------------------------------------------
\* lines 976-1004: the {label: sum} given to one pie chart of slide 2; cle
\* is the key looked up in settings.REGROUPEMENTS
DonneesCamembert(cle, df_semaine) ==
  IF cle \in DOMAIN REGROUPEMENTS
    THEN LET retenues == {c \in Image(REGROUPEMENTS[cle]) : SommeColonne(df_semaine, c) > 0}
             CatDe(l) == CHOOSE c \in retenues : LABELS_CATEGORIES[c] = l
         IN [l \in {LABELS_CATEGORIES[c] : c \in retenues} |->
               SommeColonne(df_semaine, CatDe(l))]
    ELSE << >>

\* generer_rapport_minsante: 'slides' are the slides of the presentation in
\* the order they were added; ecriture tells whether open(output_path, 'wb')
\* (line 1093) succeeds
generer_rapport_minsante(df_appels, semaine, ecriture) ==
  LET totaux == calculer_totaux_semaine(df_appels, semaine)
      df_semaine == LignesDeSemaine(df_appels, semaine)
      semaines_disponibles == TriLex(SemainesDe(df_appels))
      idx_actuelle == CHOOSE i \in 1..Len(semaines_disponibles) :
                        semaines_disponibles[i] = semaine
  IN IF ~totaux.ok THEN [ok |-> FALSE, erreur |-> "ValueError"]
     ELSE IF ~ecriture THEN [ok |-> FALSE, erreur |-> "OSError"]
     ELSE [ok |-> TRUE, erreur |-> "",
           semaine |-> semaine,
           total |-> totaux.total,
           date_debut |-> totaux.date_debut,
           date_fin |-> totaux.date_fin,
           renseignements_data |-> DonneesCamembert("RENSEIGNEMENTS", df_semaine),
           assistance_data |-> DonneesCamembert("ASSISTANCES", df_semaine),
           signaux_data |-> DonneesCamembert("SIGNAUX", df_semaine),
           semaine_precedente |->
             IF idx_actuelle > 1 THEN semaines_disponibles[idx_actuelle - 1] ELSE << >>,
           df_comparaison |->
             IF idx_actuelle > 1
               THEN comparer_periodes(df_appels,
                      << semaines_disponibles[idx_actuelle - 1], semaine >>)
               ELSE << >>,
           slides |-> << 1, 2 >> \o (IF idx_actuelle > 1 THEN << 3 >> ELSE << >>)
                        \o << 4, 5, 6, 7 >>]

\* ------------------------------------------------------------------------
\* State
\* ------------------------------------------------------------------------
VARIABLES
  fichier,      \* the daily-calls workbook in the data directory
  calendrier,   \* the calendar workbook in the data directory
  donnees,      \* what load_data last gave the page: st.cache_data entry or error
  resultat,     \* what the last call of a data_processor function returned
  sessions,     \* the upload tab of every browser session
  sauvegardes,  \* data/backups: << stem, timestamp >> of the name -> content
  annexes,      \* workbooks written to the data directory under another name
  horloge,      \* datetime.now(), in seconds
  rapport       \* the report page: its session_state, panel, log and output

vars ==
  << fichier, calendrier, donnees, resultat, sessions, sauvegardes, annexes, horloge,
     rapport >>

Sessions == 1..NbSessions

FichierAbsent == [existe |-> FALSE, colonnes |-> {}, lignes |-> << >>]

SessionVide ==
  [pc |-> "attente", televerse |-> FichierAbsent, message |-> "",
   manquantes |-> << >>, detecte |-> FALSE, ts |-> 0]

\* no report: session_state.rapport_genere = None (lines 57-58)
AucunRapport ==
  [defini |-> FALSE, mode |-> "", semaine |-> << >>, debut |-> NaT, fin |-> NaT]

\* no file written to the outputs directory
SortieAbsente == [ok |-> FALSE, erreur |-> ""]

\* the report page when its session starts (lines 54-58)
RapportVide ==
  [mode_selection |-> "semaine", rapport_genere |-> AucunRapport,
   panneau |-> "", journal |-> "", nb_slides |-> 0, sortie |-> SortieAbsente]

Etiquette(n) == << "S" >> \o StrEntier(n) \o << "_", "2", "0", "2", "5" >>

\* the week labels a page passes to the data_processor functions: the two
\* that the generated dates can carry and one that no record carries
SemainesDemandees == {Etiquette(9), Etiquette(10), Etiquette(11)}

Init ==
  /\ fichier \in FichiersSource
  /\ calendrier \in {CalendrierFichier(l) : l \in CalendriersSource}
  /\ donnees = DonneesVides
  /\ resultat = ResultatVide
  /\ sessions = [s \in Sessions |-> SessionVide]
  /\ sauvegardes = << >>
  /\ annexes = {}
  /\ horloge = 0
  /\ rapport = RapportVide

\* load_data (app.py:147 and the pages): st.cache_data returns the entry
\* when there is one, otherwise runs charger_toutes_les_donnees; an
\* exception is shown and nothing is cached
LoadData ==
  /\ donnees.etat # "charge"
  /\ donnees' \in charger_toutes_les_donnees(fichier, calendrier)
  /\ resultat' = ResultatVide
  /\ UNCHANGED << fichier, calendrier, sessions, sauvegardes, annexes, horloge, rapport >>

\* The calls of the data_processor functions on the frame load_data
\* returned.  Their results depend on the frame and the arguments only, so
\* each call is taken from the state in which the frame has been obtained.
TotauxHebdomadaires ==
  /\ donnees.etat = "charge"
  /\ resultat.op = "aucun"
  /\ \E r \in calculer_totaux_hebdomadaires(donnees.appels) :
       resultat' = [op |-> "calculer_totaux_hebdomadaires", args |-> << >>, val |-> r]
  /\ UNCHANGED << fichier, calendrier, donnees, sessions, sauvegardes, annexes, horloge, rapport >>

TotauxSemaine ==
  /\ donnees.etat = "charge"
  /\ resultat.op = "aucun"
  /\ \E w \in SemainesDemandees :
       resultat' = [op |-> "calculer_totaux_semaine", args |-> << w >>,
                    val |-> calculer_totaux_semaine(donnees.appels, w)]
  /\ UNCHANGED << fichier, calendrier, donnees, sessions, sauvegardes, annexes, horloge, rapport >>

Variations ==
  /\ donnees.etat = "charge"
  /\ resultat.op = "aucun"
  /\ \E a, p \in SemainesDemandees :
       resultat' = [op |-> "calculer_variations", args |-> << a, p >>,
                    val |-> calculer_variations(donnees.appels, a, p)]
  /\ UNCHANGED << fichier, calendrier, donnees, sessions, sauvegardes, annexes, horloge, rapport >>

ComparerPeriodes ==
  /\ donnees.etat = "charge"
  /\ resultat.op = "aucun"
  /\ \E l \in SeqBornees(SemainesDemandees, MaxPeriodes) :
       resultat' = [op |-> "comparer_periodes", args |-> << l >>,
                    val |-> comparer_periodes(donnees.appels, l)]
  /\ UNCHANGED << fichier, calendrier, donnees, sessions, sauvegardes, annexes, horloge, rapport >>

Next ==
  \/ LoadData
  \/ TotauxHebdomadaires
  \/ TotauxSemaine
  \/ Variations
  \/ ComparerPeriodes

Spec == Init /\ [][Next]_vars

\* The loader alone, on every workbook of FichiersChargement
InitChargement ==
  /\ fichier \in FichiersChargement
  /\ calendrier \in {CalendrierFichier(l) : l \in CalendriersSource}
  /\ donnees = DonneesVides
  /\ resultat = ResultatVide
  /\ sessions = [s \in Sessions |-> SessionVide]
  /\ sauvegardes = << >>
  /\ annexes = {}
  /\ horloge = 0
  /\ rapport = RapportVide

NextChargement == LoadData

SpecChargement == InitChargement /\ [][NextChargement]_vars

\* Workbooks whose weekly totals lie around the 2% threshold of the trend:
\* 50 -> 51 is +2%, 50 -> 49 is -2%, 100 -> 101 is +1%, 51 -> 50 is -1.96%
FichiersTendance ==
  { f \in Fichiers({ColonnesRequises}, {61, 62}, {"CSU_JOUR"},
                   {49, 50, 51, 100, 101, 102}) :
      Chronologique(f.lignes) }

InitTendance ==
  /\ fichier \in FichiersTendance
  /\ calendrier \in {CalendrierFichier(l) : l \in CalendriersSource}
  /\ donnees = DonneesVides
  /\ resultat = ResultatVide
  /\ sessions = [s \in Sessions |-> SessionVide]
  /\ sauvegardes = << >>
  /\ annexes = {}
  /\ horloge = 0
  /\ rapport = RapportVide

NextTendance ==
  \/ LoadData
  \/ Variations

SpecTendance == InitTendance /\ [][NextTendance]_vars

\* The loader on calendars whose ranges overlap or leave dates uncovered
InitCalendrier ==
  /\ fichier \in FichiersCalendrier
  /\ calendrier \in {CalendrierFichier(l) : l \in CalendriersChevauchants}
  /\ donnees = DonneesVides
  /\ resultat = ResultatVide
  /\ sessions = [s \in Sessions |-> SessionVide]
  /\ sauvegardes = << >>
  /\ annexes = {}
  /\ horloge = 0
  /\ rapport = RapportVide

NextCalendrier == LoadData

SpecCalendrier == InitCalendrier /\ [][NextCalendrier]_vars

\* Workbooks with days of January (22 January, week 4), February (29
\* January, week 5, and 19 February, week 8) and March (3 March, week 10)
FichiersMois ==
  { f \in Fichiers({ColonnesRequises}, {22, 29, 50, 62}, {"CSU_JOUR"}, {0, 1, 2}) :
      Chronologique(f.lignes) }

InitMois ==
  /\ fichier \in FichiersMois
  /\ calendrier = CalendrierFichier(<< [Week_No |-> 10, Date_Start |-> 62, Date_End |-> 68] >>)
  /\ donnees = DonneesVides
  /\ resultat = ResultatVide
  /\ sessions = [s \in Sessions |-> SessionVide]
  /\ sauvegardes = << >>
  /\ annexes = {}
  /\ horloge = 0
  /\ rapport = RapportVide

\* pages/3_Comparaisons.py:338: regrouper_par_mois(donnees['hebdomadaire'])
RegrouperParMois ==
  /\ donnees.etat = "charge"
  /\ resultat.op = "aucun"
  /\ resultat' = [op |-> "regrouper_par_mois", args |-> << >>,
                  val |-> regrouper_par_mois(donnees.hebdomadaire)]
  /\ UNCHANGED << fichier, calendrier, donnees, sessions, sauvegardes, annexes, horloge, rapport >>

NextMois ==
  \/ LoadData
  \/ RegrouperParMois

SpecMois == InitMois /\ [][NextMois]_vars

\* ------------------------------------------------------------------------
\* pages/4_Donnees_Brutes.py: upload of a daily-calls workbook
\* ------------------------------------------------------------------------
\* the workbooks a user selects in the file uploader
FichiersTeleverses ==
  { [existe |-> TRUE, colonnes |-> ColonnesCompletes,
     lignes |-> << LigneSource(61, "CSU_JOUR", 1, 1) >>],
    [existe |-> TRUE, colonnes |-> ColonnesRequises,
     lignes |-> << LigneSource(62, "URGENCE_MEDICALE_JOUR", 1, NaN) >>],
    [existe |-> TRUE, colonnes |-> ColonnesCompletes \ {"RUMEURS_JOUR"},
     lignes |-> << LigneSource(61, "CSU_JOUR", 1, 1) >>],
    [existe |-> TRUE, colonnes |-> ColonnesRequises \ {"DATE", "HARCELEMENTS_JOUR"},
     lignes |-> << LigneSource(62, "CSU_JOUR", 1, NaN) >>] }

\* the workbook in the data directory when the application starts
FichierInitial ==
  [existe |-> TRUE, colonnes |-> ColonnesCompletes,
   lignes |-> << LigneSource(62, "CSU_JOUR", 1, 1) >>]

\* the calendar workbook in the data directory when the application starts
CalendrierInitial ==
  CalendrierFichier(<< [Week_No |-> 10, Date_Start |-> 62, Date_End |-> 68] >>)

\* the validation when only the category columns are required
ValiderTeleversement_SansDate(f) ==
  SelectSeq(CATEGORIES_APPELS, LAMBDA c : c \notin f.colonnes)

\* lines 540-544: colonnes_manq of the uploaded sheet
ValiderTeleversement(f) == ColonnesManquantes(f.colonnes)

\* nom_backup (lines 562 and 640): <stem of the current workbook>_backup_<ts>
NomSauvegarde(stem, ts) == << stem, ts >>

\* the script run of the session is inside a CONFIRMER handler
EnCours(pc) ==
  pc \in {"verifier", "copier", "supprimer", "ecrire", "vider_cache",
          "cal_verifier", "cal_copier", "cal_supprimer", "cal_ecrire", "cal_vider_cache"}

\* A script run with a file in the uploader and no click on the button
\* (lines 529-550): the sheet is read and validated, st.error lists the
\* missing columns or the confirmation button is shown.
Televerser(s) ==
  /\ ~EnCours(sessions[s].pc)
  /\ \E f \in FichiersTeleverses :
       LET colonnes_manq == ValiderTeleversement(f)
       IN sessions' = [sessions EXCEPT ![s] =
            [pc |-> IF colonnes_manq # << >> THEN "rejete" ELSE "valide",
             televerse |-> f,
             message |-> IF colonnes_manq # << >> THEN "Colonnes manquantes"
                         ELSE "Structure du fichier validee",
             manquantes |-> colonnes_manq,
             detecte |-> FALSE,
             ts |-> 0]]
  /\ UNCHANGED << fichier, calendrier, donnees, resultat, sauvegardes, annexes, horloge, rapport >>

\* The click on CONFIRMER LA MISE A JOUR: the script runs again from the
\* top, detecter_fichiers_data (line 516) looks for the current workbook.
Confirmer(s) ==
  /\ sessions[s].pc = "valide"
  /\ sessions' = [sessions EXCEPT ![s].pc = "verifier", ![s].detecte = fichier.existe]
  /\ UNCHANGED << fichier, calendrier, donnees, resultat, sauvegardes, annexes, horloge, rapport >>

\* the handler when the workbook is deleted without the copy
Verifier_SansCopie(s) ==
  /\ sessions[s].pc = "verifier"
  /\ sessions' = [sessions EXCEPT
       ![s].pc = IF sessions[s].detecte /\ fichier.existe THEN "supprimer" ELSE "ecrire",
       ![s].ts = IF sessions[s].detecte /\ fichier.existe THEN horloge ELSE 0]
  /\ UNCHANGED << fichier, calendrier, donnees, resultat, sauvegardes, annexes, horloge, rapport >>

\* line 560: if fichier_actuel_appels and os.path.exists(...), then the
\* timestamp of the backup name (line 561)
Verifier(s) ==
  /\ sessions[s].pc = "verifier"
  /\ sessions' = [sessions EXCEPT
       ![s].pc = IF sessions[s].detecte /\ fichier.existe THEN "copier" ELSE "ecrire",
       ![s].ts = IF sessions[s].detecte /\ fichier.existe THEN horloge ELSE 0]
  /\ UNCHANGED << fichier, calendrier, donnees, resultat, sauvegardes, annexes, horloge, rapport >>

\* the copy when a backup of the same name is never replaced
Copier_SansEcrasement(s) ==
  /\ sessions[s].pc = "copier"
  /\ IF fichier.existe
       THEN /\ sauvegardes' = sauvegardes @@ (NomSauvegarde("appels", sessions[s].ts) :> fichier)
            /\ sessions' = [sessions EXCEPT ![s].pc = "supprimer"]
       ELSE /\ sauvegardes' = sauvegardes
            /\ sessions' = [sessions EXCEPT ![s].pc = "erreur", ![s].message = "Erreur",
                                            ![s].detecte = FALSE, ![s].ts = 0]
  /\ UNCHANGED << fichier, calendrier, donnees, resultat, annexes, horloge, rapport >>

\* line 564: shutil.copy2 to backups/<stem>_backup_<ts>.xlsx; the handler
\* of line 586 reports the exception when the workbook is gone
Copier(s) ==
  /\ sessions[s].pc = "copier"
  /\ IF fichier.existe
       THEN /\ sauvegardes' = (NomSauvegarde("appels", sessions[s].ts) :> fichier) @@ sauvegardes
            /\ sessions' = [sessions EXCEPT ![s].pc = "supprimer"]
       ELSE /\ sauvegardes' = sauvegardes
            /\ sessions' = [sessions EXCEPT ![s].pc = "erreur", ![s].message = "Erreur",
                                            ![s].detecte = FALSE, ![s].ts = 0]
  /\ UNCHANGED << fichier, calendrier, donnees, resultat, annexes, horloge, rapport >>

\* line 568: os.remove(fichier_actuel_appels)
Supprimer(s) ==
  /\ sessions[s].pc = "supprimer"
  /\ IF fichier.existe
       THEN /\ fichier' = FichierAbsent
            /\ sessions' = [sessions EXCEPT ![s].pc = "ecrire"]
       ELSE /\ fichier' = fichier
            /\ sessions' = [sessions EXCEPT ![s].pc = "erreur", ![s].message = "Erreur",
                                            ![s].detecte = FALSE, ![s].ts = 0]
  /\ UNCHANGED << calendrier, donnees, resultat, sauvegardes, annexes, horloge, rapport >>

\* lines 571-574: the new workbook is written to the detected path, or to
\* DATA_DIR / <name of the upload> when no workbook was detected
Ecrire(s) ==
  /\ sessions[s].pc = "ecrire"
  /\ IF sessions[s].detecte
       THEN fichier' = sessions[s].televerse /\ annexes' = annexes
       ELSE fichier' = fichier /\ annexes' = annexes \cup {sessions[s].televerse}
  /\ sessions' = [sessions EXCEPT ![s].pc = "vider_cache",
                                  ![s].message = "Fichier mis a jour"]
  /\ UNCHANGED << calendrier, donnees, resultat, sauvegardes, horloge, rapport >>

\* line 582: st.cache_data.clear(); the run ends and its locals with it
ViderCache(s) ==
  /\ sessions[s].pc = "vider_cache"
  /\ donnees' = DonneesVides
  /\ sessions' = [sessions EXCEPT ![s].pc = "termine", ![s].detecte = FALSE, ![s].ts = 0]
  /\ UNCHANGED << fichier, calendrier, resultat, sauvegardes, annexes, horloge, rapport >>

\* a second of wall-clock time passes
Tic ==
  /\ horloge < MaxHorloge
  /\ horloge' = horloge + 1
  /\ UNCHANGED << fichier, calendrier, donnees, resultat, sessions, sauvegardes, annexes, rapport >>

\* ------------------------------------------------------------------------
\* pages/4_Donnees_Brutes.py: upload of a calendar workbook (upload_tab2)
\* ------------------------------------------------------------------------
\* the calendar workbooks a user selects: one the page accepts, one without
\* the column 'Semaine epidemiologique'
CalendriersTeleverses ==
  { [existe |-> TRUE, colonnes |-> {"DATE", COL_SEMAINE}, table1 |-> TRUE,
     lignes |-> << [Week_No |-> 10, Date_Start |-> 61, Date_End |-> 67] >>],
    [existe |-> TRUE, colonnes |-> {"DATE"}, table1 |-> TRUE,
     lignes |-> << [Week_No |-> 10, Date_Start |-> 61, Date_End |-> 67] >>] }

\* lines 618-619: colonnes_manq_cal
ValiderCalendrier(f) ==
  SelectSeq(<< "DATE", COL_SEMAINE >>, LAMBDA c : c \notin f.colonnes)

\* lines 607-628: the first sheet of a workbook of F is read and validated
TeleverserCalendrierParmi(s, F) ==
  /\ ~EnCours(sessions[s].pc)
  /\ \E f \in F :
       LET colonnes_manq_cal == ValiderCalendrier(f)
       IN sessions' = [sessions EXCEPT ![s] =
            [pc |-> IF colonnes_manq_cal # << >> THEN "cal_rejete" ELSE "cal_valide",
             televerse |-> f,
             message |-> IF colonnes_manq_cal # << >> THEN "Colonnes manquantes"
                         ELSE "Structure du fichier validee",
             manquantes |-> colonnes_manq_cal,
             detecte |-> FALSE,
             ts |-> 0]]
  /\ UNCHANGED << fichier, calendrier, donnees, resultat, sauvegardes, annexes, horloge, rapport >>

TeleverserCalendrier(s) == TeleverserCalendrierParmi(s, CalendriersTeleverses)

\* the click on the button conf_cal: detecter_fichiers_data (line 594)
ConfirmerCalendrier(s) ==
  /\ sessions[s].pc = "cal_valide"
  /\ sessions' = [sessions EXCEPT ![s].pc = "cal_verifier", ![s].detecte = calendrier.existe]
  /\ UNCHANGED << fichier, calendrier, donnees, resultat, sauvegardes, annexes, horloge, rapport >>

\* lines 638-639
VerifierCalendrier(s) ==
  /\ sessions[s].pc = "cal_verifier"
  /\ sessions' = [sessions EXCEPT
       ![s].pc = IF sessions[s].detecte /\ calendrier.existe THEN "cal_copier" ELSE "cal_ecrire",
       ![s].ts = IF sessions[s].detecte /\ calendrier.existe THEN horloge ELSE 0]
  /\ UNCHANGED << fichier, calendrier, donnees, resultat, sauvegardes, annexes, horloge, rapport >>

\* line 642: shutil.copy2
CopierCalendrier(s) ==
  /\ sessions[s].pc = "cal_copier"
  /\ IF calendrier.existe
       THEN /\ sauvegardes' =
                 (NomSauvegarde("calendrier", sessions[s].ts) :> calendrier) @@ sauvegardes
            /\ sessions' = [sessions EXCEPT ![s].pc = "cal_supprimer"]
       ELSE /\ sauvegardes' = sauvegardes
            /\ sessions' = [sessions EXCEPT ![s].pc = "erreur", ![s].message = "Erreur",
                                            ![s].detecte = FALSE, ![s].ts = 0]
  /\ UNCHANGED << fichier, calendrier, donnees, resultat, annexes, horloge, rapport >>

\* line 646: os.remove(fichier_actuel_cal)
SupprimerCalendrier(s) ==
  /\ sessions[s].pc = "cal_supprimer"
  /\ IF calendrier.existe
       THEN /\ calendrier' = CalendrierAbsent
            /\ sessions' = [sessions EXCEPT ![s].pc = "cal_ecrire"]
       ELSE /\ calendrier' = calendrier
            /\ sessions' = [sessions EXCEPT ![s].pc = "erreur", ![s].message = "Erreur",
                                            ![s].detecte = FALSE, ![s].ts = 0]
  /\ UNCHANGED << fichier, donnees, resultat, sauvegardes, annexes, horloge, rapport >>

\* lines 649-652
EcrireCalendrier(s) ==
  /\ sessions[s].pc = "cal_ecrire"
  /\ IF sessions[s].detecte
       THEN calendrier' = sessions[s].televerse /\ annexes' = annexes
       ELSE calendrier' = calendrier /\ annexes' = annexes \cup {sessions[s].televerse}
  /\ sessions' = [sessions EXCEPT ![s].pc = "cal_vider_cache",
                                  ![s].message = "Fichier mis a jour"]
  /\ UNCHANGED << fichier, donnees, resultat, sauvegardes, horloge, rapport >>

\* line 660: st.cache_data.clear()
ViderCacheCalendrier(s) ==
  /\ sessions[s].pc = "cal_vider_cache"
  /\ donnees' = DonneesVides
  /\ sessions' = [sessions EXCEPT ![s].pc = "termine", ![s].detecte = FALSE, ![s].ts = 0]
  /\ UNCHANGED << fichier, calendrier, resultat, sauvegardes, annexes, horloge, rapport >>

InitUpload ==
  /\ fichier = FichierInitial
  /\ calendrier = CalendrierInitial
  /\ donnees = DonneesVides
  /\ resultat = ResultatVide
  /\ sessions = [s \in Sessions |-> SessionVide]
  /\ sauvegardes = << >>
  /\ annexes = {}
  /\ horloge = 0
  /\ rapport = RapportVide

NextUpload ==
  \/ LoadData
  \/ Tic
  \/ \E s \in Sessions :
       \/ Televerser(s)
       \/ Confirmer(s)
       \/ Verifier(s)
       \/ Copier(s)
       \/ Supprimer(s)
       \/ Ecrire(s)
       \/ ViderCache(s)

SpecUpload == InitUpload /\ [][NextUpload]_vars

\* ------------------------------------------------------------------------
\* pages/5_Generation_Rapports.py
\* ------------------------------------------------------------------------
\* the handler when a failure forgets the report generated before
ApresGeneration_Oubli(r, info) ==
  IF r.ok
    THEN [rapport EXCEPT !.rapport_genere = info, !.panneau = "succes",
                         !.journal = "succes", !.nb_slides = 7, !.sortie = r]
    ELSE [rapport EXCEPT !.rapport_genere = AucunRapport, !.panneau = "erreur",
                         !.journal = "echec", !.nb_slides = 0]

\* lines 479-516: what the handler of btn_generer does with the outcome r of
\* the generator, for the report described by info
ApresGeneration(r, info) ==
  IF r.ok
    THEN [rapport EXCEPT !.rapport_genere = info, !.panneau = "succes",
                         !.journal = "succes", !.nb_slides = 7, !.sortie = r]
    ELSE [rapport EXCEPT !.panneau = "erreur", !.journal = "echec", !.nb_slides = 0]

\* lines 219-232: the two buttons of the selection mode
ChoisirMode ==
  /\ donnees.etat = "charge"
  /\ \E m \in {"semaine", "periode"} :
       rapport' = [rapport EXCEPT !.mode_selection = m, !.rapport_genere = AucunRapport,
                                  !.panneau = ""]
  /\ UNCHANGED << fichier, calendrier, donnees, resultat, sessions, sauvegardes, annexes,
                  horloge >>

\* btn_generer in the mode 'semaine': the week is one of the select box
\* (lines 260-271), the frame is filtered on it (line 457)
GenererSemaine ==
  /\ donnees.etat = "charge"
  /\ rapport.mode_selection = "semaine"
  /\ \E periode_label \in SemainesDe(donnees.appels), ecriture \in BOOLEAN :
       LET df_filtered == LignesDeSemaine(donnees.appels, periode_label)
           r == generer_rapport_minsante(df_filtered, periode_label, ecriture)
           dates == {df_filtered[i].DATE : i \in 1..Len(df_filtered)}
       IN rapport' = ApresGeneration(r,
            [defini |-> TRUE, mode |-> "semaine", semaine |-> periode_label,
             debut |-> Min(dates), fin |-> Max(dates)])
  /\ UNCHANGED << fichier, calendrier, donnees, resultat, sessions, sauvegardes, annexes,
                  horloge >>

\* btn_generer in the mode 'periode': the two dates lie between date_min
\* and date_max (lines 313-335), the page stops when the start is after the
\* end (line 338) or when the period has no record (line 352); the
\* generator is given the week of the last record of the period (line 465)
GenererPeriode ==
  /\ donnees.etat = "charge"
  /\ rapport.mode_selection = "periode"
  /\ LET toutes == {donnees.appels[i].DATE : i \in 1..Len(donnees.appels)}
     IN \E data_debut, data_fin \in Min(toutes)..Max(toutes), ecriture \in BOOLEAN :
          LET df_filtered == SelectSeq(donnees.appels,
                               LAMBDA l : l.DATE >= data_debut /\ l.DATE <= data_fin)
              semaine_param == df_filtered[Len(df_filtered)].Semaine
              r == generer_rapport_minsante(df_filtered, semaine_param, ecriture)
          IN /\ data_debut <= data_fin
             /\ Len(df_filtered) > 0
             /\ rapport' = ApresGeneration(r,
                  [defini |-> TRUE, mode |-> "periode", semaine |-> << >>,
                   debut |-> data_debut, fin |-> data_fin])
  /\ UNCHANGED << fichier, calendrier, donnees, resultat, sessions, sauvegardes, annexes,
                  horloge >>

NextRapport ==
  \/ LoadData
  \/ ChoisirMode
  \/ GenererSemaine
  \/ GenererPeriode

SpecRapport == Init /\ [][NextRapport]_vars

\* obtenir_derniere_semaine and obtenir_semaine_precedente alone, on the
\* weekly frames whose labels are taken from six weeks of two years.  The
\* rows of df_hebdo come in the order of the group keys (data_loader.py:287)
EtiquetteAn(n, an) == << "S" >> \o StrEntier(n) \o << "_" >> \o StrEntier(an)

SEMAINES_DEUX_ANS ==
  {EtiquetteAn(1, 2025), EtiquetteAn(9, 2025), EtiquetteAn(10, 2025),
   EtiquetteAn(52, 2025), EtiquetteAn(1, 2026), EtiquetteAn(2, 2026)}

InitSemaines ==
  /\ fichier = FichierInitial
  /\ calendrier = CalendrierInitial
  /\ donnees = DonneesVides
  /\ \E S \in SUBSET SEMAINES_DEUX_ANS, w \in SEMAINES_DEUX_ANS :
       resultat = [op |-> "aucun", args |-> << TriLex(S), w >>, val |-> AucuneSemaine]
  /\ sessions = [s \in Sessions |-> SessionVide]
  /\ sauvegardes = << >>
  /\ annexes = {}
  /\ horloge = 0
  /\ rapport = RapportVide

DerniereSemaine ==
  /\ resultat.op = "aucun"
  /\ resultat' = [resultat EXCEPT !.op = "obtenir_derniere_semaine",
                                  !.val = obtenir_derniere_semaine(resultat.args[1])]
  /\ UNCHANGED << fichier, calendrier, donnees, sessions, sauvegardes, annexes, horloge,
                  rapport >>

SemainePrecedente ==
  /\ resultat.op = "aucun"
  /\ resultat' = [resultat EXCEPT
       !.op = "obtenir_semaine_precedente",
       !.val = obtenir_semaine_precedente(resultat.args[1], resultat.args[2])]
  /\ UNCHANGED << fichier, calendrier, donnees, sessions, sauvegardes, annexes, horloge,
                  rapport >>

NextSemaines == DerniereSemaine \/ SemainePrecedente

SpecSemaines == InitSemaines /\ [][NextSemaines]_vars

\* extraire_numero_semaine alone.  A value is a str (car: its characters)
\* or not a str (None, a number); the strings are all those of at most
\* MaxCaracteres characters over the letters of week labels, and three
\* labels of the data
ALPHABET == {"S", "s", "_", "0", "1"}

ValeursEtiquette ==
  {[str |-> TRUE, car |-> c] :
     c \in SeqBornees(ALPHABET, MaxCaracteres)
             \cup {Etiquette(9), Etiquette(10),
                   << "S", "5", "2", "_", "2", "0", "2", "6" >>}}
  \cup {[str |-> FALSE, car |-> << >>]}

InitEtiquette ==
  /\ fichier = FichierInitial
  /\ calendrier = CalendrierInitial
  /\ donnees = DonneesVides
  /\ \E v \in ValeursEtiquette : resultat = [op |-> "aucun", args |-> << v >>, val |-> 0]
  /\ sessions = [s \in Sessions |-> SessionVide]
  /\ sauvegardes = << >>
  /\ annexes = {}
  /\ horloge = 0
  /\ rapport = RapportVide

\* the call; isinstance(semaine_label, str) is tested first (line 65)
ExtraireNumero ==
  /\ resultat.op = "aucun"
  /\ resultat' = [resultat EXCEPT
       !.op = "extraire_numero_semaine",
       !.val = IF resultat.args[1].str
                 THEN extraire_numero_semaine(resultat.args[1].car)
                 ELSE 0]
  /\ UNCHANGED << fichier, calendrier, donnees, sessions, sauvegardes, annexes, horloge,
                  rapport >>

NextEtiquette == ExtraireNumero

SpecEtiquette == InitEtiquette /\ [][NextEtiquette]_vars

\* The upload page with its two tabs: every session may upload a
\* daily-calls workbook or a calendar workbook
NextUploads ==
  \/ LoadData
  \/ \E s \in Sessions :
       \/ Televerser(s)
       \/ Confirmer(s)
       \/ Verifier(s)
       \/ Copier(s)
       \/ Supprimer(s)
       \/ Ecrire(s)
       \/ ViderCache(s)
       \/ TeleverserCalendrier(s)
       \/ ConfirmerCalendrier(s)
       \/ VerifierCalendrier(s)
       \/ CopierCalendrier(s)
       \/ SupprimerCalendrier(s)
       \/ EcrireCalendrier(s)
       \/ ViderCacheCalendrier(s)

SpecUploads == InitUpload /\ [][NextUploads]_vars

\* The calendar tab alone, with the workbooks of the two layouts: the one
\* the loader reads (sheet 'Table 1', header on the second row, nine
\* columns) behind a first sheet with the two columns the page asks for,
\* and the one the page describes (a single sheet DATE, Semaine
\* epidemiologique)
CalendriersDeuxFormats ==
  CalendriersTeleverses \cup
  { [existe |-> TRUE, colonnes |-> {"DATE", COL_SEMAINE}, table1 |-> FALSE,
     lignes |-> << >>] }

TeleverserCalendrierFormats(s) == TeleverserCalendrierParmi(s, CalendriersDeuxFormats)

NextCalendriers ==
  \/ LoadData
  \/ \E s \in Sessions :
       \/ TeleverserCalendrierFormats(s)
       \/ ConfirmerCalendrier(s)
       \/ VerifierCalendrier(s)
       \/ CopierCalendrier(s)
       \/ SupprimerCalendrier(s)
       \/ EcrireCalendrier(s)
       \/ ViderCacheCalendrier(s)

SpecCalendriers == InitUpload /\ [][NextCalendriers]_vars

\* ------------------------------------------------------------------------
\* Properties
\* ------------------------------------------------------------------------
RECURSIVE SommeSur(_, _)
SommeSur(f, S) ==
  IF S = {} THEN 0
  ELSE LET x == CHOOSE y \in S : TRUE IN f[x] + SommeSur(f, S \ {x})

Charge == donnees.etat = "charge"

\* indices of the rows of a frame that are the first with their date
PremieresOccurrences(df) ==
  {i \in 1..Len(df) : \A j \in 1..Len(df) : j < i => df[j].DATE # df[i].DATE}

IndicesDeSemaine(df, w) == {i \in 1..Len(df) : df[i].Semaine = w}

\* C1: in the frame returned by calculer_totaux_hebdomadaires there is one
\* row per week label of the daily records, and its TOTAL_APPELS_SEMAINE is
\* the sum of TOTAL_APPELS_JOUR over the daily records of that week.
C1_TotalHebdoEgalSommeDesJours ==
  resultat.op = "calculer_totaux_hebdomadaires" =>
    /\ {resultat.val[i].Semaine : i \in 1..Len(resultat.val)} = SemainesDe(donnees.appels)
    /\ \A i \in 1..Len(resultat.val) :
         resultat.val[i].TOTAL_APPELS_SEMAINE =
           SommeSur([k \in 1..Len(donnees.appels) |-> donnees.appels[k].TOTAL],
                    IndicesDeSemaine(donnees.appels, resultat.val[i].Semaine))

\* C2: for a week present in the daily records, the five group sums of
\* calculer_totaux_semaine add up to its 'total'.
C2_SommeRegroupementsEgalTotal ==
  (resultat.op = "calculer_totaux_semaine" /\ resultat.val.ok) =>
    SommeSur(resultat.val.regroupements, DOMAIN resultat.val.regroupements)
      = resultat.val.total

\* C3: calculer_variations returns variation_relative = 100 (percent) when
\* the previous week's total is 0 and the current one is positive, and 0
\* when both totals are 0.  Percentages are in hundredths.
C3_VariationSurBaseNulle ==
  (resultat.op = "calculer_variations" /\ resultat.val.ok
     /\ resultat.val.total_precedent = 0) =>
    /\ resultat.val.total_actuel > 0 => resultat.val.variation_relative = 10000
    /\ resultat.val.total_actuel = 0 => resultat.val.variation_relative = 0

\* C4: after charger_toutes_les_donnees, every week of the loaded frame has
\* one weekly row whose nb_jours is the number of distinct dates of the week
\* and whose TOTAL_APPELS_SEMAINE is the sum of TOTAL_APPELS_JOUR over the
\* rows that are the first of their date; the reported number of removed
\* duplicates is the number of rows minus the number of distinct dates.
C4_DoublonsPremiereOccurrence ==
  Charge =>
    LET df == donnees.appels
        hebdo == donnees.hebdomadaire
    IN /\ {hebdo[k].Semaine : k \in 1..Len(hebdo)} = SemainesDe(df)
       /\ \A k, l \in 1..Len(hebdo) : k # l => hebdo[k].Semaine # hebdo[l].Semaine
       /\ \A k \in 1..Len(hebdo) :
            /\ hebdo[k].nb_jours =
                 Cardinality({df[i].DATE : i \in IndicesDeSemaine(df, hebdo[k].Semaine)})
            /\ hebdo[k].TOTAL_APPELS_SEMAINE =
                 SommeSur([i \in 1..Len(df) |-> df[i].TOTAL],
                          IndicesDeSemaine(df, hebdo[k].Semaine) \cap PremieresOccurrences(df))
       /\ donnees.doublons = Len(df) - Cardinality({df[i].DATE : i \in 1..Len(df)})

\* a load in which a date occurs twice with two different daily totals
C4_Temoin ==
  /\ Charge
  /\ donnees.doublons > 0
  /\ \E i, j \in 1..Len(donnees.appels) :
       /\ i < j
       /\ donnees.appels[i].DATE = donnees.appels[j].DATE
       /\ donnees.appels[i].TOTAL # donnees.appels[j].TOTAL

\* C5 as stated: the records returned under 'appels' hold at most one
\* record per date.
C5_UnEnregistrementParDate ==
  Charge =>
    \A i, j \in 1..Len(donnees.appels) :
      i # j => donnees.appels[i].DATE # donnees.appels[j].DATE

\* C5 amended: 'appels' holds one record for every source row with a valid
\* date, duplicate dates included; it is the frame behind 'statistiques'
\* and 'hebdomadaire' that has one record per date (nb_jours counts the
\* distinct dates).
C5_AppelsToutesLesLignes ==
  Charge =>
    LET df == donnees.appels
        dates == {df[i].DATE : i \in 1..Len(df)}
    IN /\ Len(df) = Cardinality({i \in 1..Len(fichier.lignes) : fichier.lignes[i].DATE # NaT})
       /\ donnees.statistiques.nb_jours = Cardinality(dates)
       /\ SommeSur([k \in 1..Len(donnees.hebdomadaire) |-> donnees.hebdomadaire[k].nb_jours],
                   1..Len(donnees.hebdomadaire)) = Cardinality(dates)

\* a load whose 'appels' holds two records of the same date
C5_Temoin ==
  /\ Charge
  /\ \E i, j \in 1..Len(donnees.appels) :
       i # j /\ donnees.appels[i].DATE = donnees.appels[j].DATE
  /\ donnees.statistiques.nb_jours < Len(donnees.appels)

\* C6: an uploaded daily-calls workbook that lacks a required column is
\* rejected, the error lists exactly the missing columns, and the step that
\* rejects it leaves the data file, the backups, the data directory and
\* the cache as they were.
C6_RejetSansEffet ==
  [][\A s \in Sessions :
       LET f == sessions'[s].televerse
           manq == ColonnesRequises \ f.colonnes
       IN (f.existe /\ manq # {}) =>
            /\ sessions'[s].pc = "rejete"
            /\ Image(sessions'[s].manquantes) = manq
            /\ Len(sessions'[s].manquantes) = Cardinality(manq)
            /\ sessions'[s] # sessions[s] =>
                 /\ fichier' = fichier
                 /\ sauvegardes' = sauvegardes
                 /\ annexes' = annexes
                 /\ donnees' = donnees]_vars

\* a session is shown the rejection of a workbook without RUMEURS_JOUR
\* while the cache is filled
C6_Temoin ==
  /\ Charge
  /\ \E s \in Sessions :
       /\ sessions[s].pc = "rejete"
       /\ sessions[s].manquantes = << "RUMEURS_JOUR" >>

\* C7: comparer_periodes returns 6 rows, the five groups in the order of
\* REGROUPEMENTS and then TOTAL, whatever the list of weeks.
C7_SixLignes ==
  resultat.op = "comparer_periodes" =>
    /\ Len(resultat.val) = 6
    /\ \A k \in 1..5 : resultat.val[k].Categorie = LABELS_REGROUPEMENTS[GROUPES[k]]
    /\ resultat.val[6].Categorie = "TOTAL"

\* comparer_periodes was given the empty list
C7_Temoin ==
  /\ resultat.op = "comparer_periodes"
  /\ resultat.args[1] = << >>
  /\ Len(resultat.val) = 6

\* C8: the rows of calculer_totaux_hebdomadaires are in non-decreasing
\* order of the week number of their label; S9_2025 is before S10_2025.
C8_TriNumerique ==
  resultat.op = "calculer_totaux_hebdomadaires" =>
    /\ \A i, j \in 1..Len(resultat.val) :
         i < j => extraire_numero_semaine(resultat.val[i].Semaine)
                    <= extraire_numero_semaine(resultat.val[j].Semaine)
    /\ \A i, j \in 1..Len(resultat.val) :
         (resultat.val[i].Semaine = Etiquette(9) /\ resultat.val[j].Semaine = Etiquette(10))
           => i < j

\* the weekly frame holds S9_2025 and S10_2025
C8_Temoin ==
  /\ resultat.op = "calculer_totaux_hebdomadaires"
  /\ Len(resultat.val) = 2
  /\ resultat.val[1].Semaine = Etiquette(9)
  /\ resultat.val[2].Semaine = Etiquette(10)

\* C9: for a week with k >= 1 daily rows calculer_totaux_semaine returns
\* nb_jours = k, total = the sum of TOTAL_APPELS_JOUR of these rows,
\* moyenne_jour = total / k to the nearest hundredth, and 'categories' =
\* the categories with a positive weekly sum, by display label.
C9_TotauxSemaine ==
  (resultat.op = "calculer_totaux_semaine" /\ resultat.val.ok) =>
    LET df == donnees.appels
        idx == IndicesDeSemaine(df, resultat.args[1])
        k == Cardinality(idx)
        Somme(c) == SommeSur([i \in 1..Len(df) |-> df[i].cats[c]], idx)
        ecart == 100 * resultat.val.total - resultat.val.moyenne_jour * k
    IN /\ k >= 1
       /\ resultat.val.nb_jours = k
       /\ resultat.val.total = SommeSur([i \in 1..Len(df) |-> df[i].TOTAL], idx)
       /\ 2 * ecart <= k /\ 2 * (0 - ecart) <= k
       /\ DOMAIN resultat.val.categories = {LABELS_CATEGORIES[c] : c \in {x \in CatSet : Somme(x) > 0}}
       /\ \A c \in CatSet :
            Somme(c) > 0 => resultat.val.categories[LABELS_CATEGORIES[c]] = Somme(c)

\* two days of one week with calls in CSU_JOUR only
C9_Temoin ==
  /\ resultat.op = "calculer_totaux_semaine"
  /\ resultat.val.ok
  /\ resultat.val.nb_jours = 2
  /\ resultat.val.total = 2
  /\ resultat.val.moyenne_jour = 100
  /\ resultat.val.categories = ("Couverture Sante Universelle" :> 2)

\* C10 as stated: every loaded daily record has all its category cells
\* filled and a TOTAL_APPELS_JOUR equal to the sum of its 17 categories.
C10_TotalEgalSommeCategories ==
  Charge =>
    \A i \in 1..Len(donnees.appels) :
      /\ \A c \in CatSet : donnees.appels[i].cats[c] # NaN
      /\ donnees.appels[i].TOTAL = SommeCategories(donnees.appels[i].cats)

\* C10 amended: every loaded daily record has all its category cells filled
\* (an empty cell becomes 0); its TOTAL_APPELS_JOUR is the sum of its 17
\* categories when the sheet has no TOTAL_APPELS_JOUR column, and otherwise
\* the value of the sheet's own cell (0 when that cell is empty).
C10_TotalCalculeSiAbsent ==
  Charge =>
    \A i \in 1..Len(donnees.appels) :
      LET r == donnees.appels[i]
      IN /\ \A c \in CatSet : r.cats[c] # NaN
         /\ \E k \in 1..Len(fichier.lignes) :
              LET src == fichier.lignes[k]
              IN /\ src.DATE = r.DATE
                 /\ \A c \in CatSet :
                      r.cats[c] = IF src.cats[c] = NaN THEN 0 ELSE src.cats[c]
                 /\ IF COL_TOTAL \in fichier.colonnes
                      THEN r.TOTAL = IF src.TOTAL = NaN THEN 0 ELSE src.TOTAL
                      ELSE r.TOTAL = SommeCategories(r.cats)

\* a sheet with its own total column is loaded: a record whose total is not
\* the sum of its categories, and a record that had an empty category cell
C10_Temoin ==
  /\ Charge
  /\ COL_TOTAL \in fichier.colonnes
  /\ \E i \in 1..Len(donnees.appels) :
       donnees.appels[i].TOTAL # SommeCategories(donnees.appels[i].cats)
  /\ \E k \in 1..Len(fichier.lignes) :
       fichier.lignes[k].DATE # NaT /\ fichier.lignes[k].cats["CSU_JOUR"] = NaN

\* sum of a category column over the rows of a week
SommeCategorieSemaine(df, c, w) ==
  SommeSur([i \in 1..Len(df) |-> df[i].cats[c]], IndicesDeSemaine(df, w))

SommeGroupeSemaine(df, g, w) ==
  SommeSeq([k \in 1..Len(REGROUPEMENTS[g]) |->
              SommeCategorieSemaine(df, REGROUPEMENTS[g][k], w)])

\* an entry of 'categories' or 'regroupements' exists exactly when one of
\* the two weekly values is positive; it carries the two values, and 100%
\* when the previous value is 0 and the current one positive
EntreeConforme(entrees, label, va, vp) ==
  /\ (label \in DOMAIN entrees) <=> (va > 0 \/ vp > 0)
  /\ (label \in DOMAIN entrees) =>
       /\ entrees[label].actuel = va
       /\ entrees[label].precedent = vp
       /\ (vp = 0 /\ va > 0) => entrees[label].variation_relative = 10000

\* C11: in the result of calculer_variations, a category or a group has an
\* entry if and only if its value in one of the two weeks is positive, and
\* the entry's variation_relative is 100 (percent, in hundredths) when the
\* previous value is 0 and the current one is positive.
C11_VariationsParEntree ==
  (resultat.op = "calculer_variations" /\ resultat.val.ok) =>
    LET df == donnees.appels
        a == resultat.args[1]
        p == resultat.args[2]
    IN /\ \A c \in CatSet :
            EntreeConforme(resultat.val.categories, LABELS_CATEGORIES[c],
                           SommeCategorieSemaine(df, c, a), SommeCategorieSemaine(df, c, p))
       /\ \A g \in Image(GROUPES) :
            EntreeConforme(resultat.val.regroupements, LABELS_REGROUPEMENTS[g],
                           SommeGroupeSemaine(df, g, a), SommeGroupeSemaine(df, g, p))

\* a category went from 0 to a positive count, and some group has no entry
C11_Temoin ==
  /\ resultat.op = "calculer_variations"
  /\ resultat.val.ok
  /\ \E l \in DOMAIN resultat.val.categories :
       /\ resultat.val.categories[l].precedent = 0
       /\ resultat.val.categories[l].actuel > 0
       /\ resultat.val.categories[l].variation_relative = 10000
  /\ \E g \in Image(GROUPES) : LABELS_REGROUPEMENTS[g] \notin DOMAIN resultat.val.regroupements

\* C13: calculer_totaux_semaine raises ValueError and returns nothing when
\* no daily record carries the week label, and returns a result otherwise;
\* calculer_variations raises the same error when one of its two weeks has
\* no record.
C13_SemaineIntrouvable ==
  LET present(w) == IndicesDeSemaine(donnees.appels, w) # {}
      Echec(v) == ~v.ok /\ v.erreur = "ValueError" /\ DOMAIN v = {"ok", "erreur"}
  IN /\ resultat.op = "calculer_totaux_semaine" =>
          IF present(resultat.args[1]) THEN resultat.val.ok ELSE Echec(resultat.val)
     /\ resultat.op = "calculer_variations" =>
          IF present(resultat.args[1]) /\ present(resultat.args[2])
            THEN resultat.val.ok ELSE Echec(resultat.val)

\* calculer_variations was asked for a week that has records and one that
\* has none
C13_Temoin ==
  /\ resultat.op = "calculer_variations"
  /\ ~resultat.val.ok
  /\ IndicesDeSemaine(donnees.appels, resultat.args[1]) # {}
  /\ IndicesDeSemaine(donnees.appels, resultat.args[2]) = {}

\* C12: with a previous total p > 0 and a current total a, the relative
\* variation is r = 100 (a - p) / p; tendance is 'stable' exactly when
\* |r| < 2, 'hausse' when r >= 2 and 'baisse' when r <= -2.
C12_TendanceSeuilDeuxPourcent ==
  (resultat.op = "calculer_variations" /\ resultat.val.ok
     /\ resultat.val.total_precedent > 0) =>
    LET p == resultat.val.total_precedent
        d == resultat.val.total_actuel - p
    IN /\ resultat.val.variation_absolue = d
       /\ (resultat.val.tendance = "stable") <=> (100 * d < 2 * p /\ 100 * d > 0 - 2 * p)
       /\ 100 * d >= 2 * p => resultat.val.tendance = "hausse"
       /\ 100 * d <= 0 - 2 * p => resultat.val.tendance = "baisse"

\* the total went from 50 to 51, exactly +2%, and the trend is 'hausse'
C12_Temoin ==
  /\ resultat.op = "calculer_variations"
  /\ resultat.val.ok
  /\ resultat.val.total_precedent = 50
  /\ resultat.val.total_actuel = 51
  /\ resultat.val.variation_relative = 200
  /\ resultat.val.tendance = "hausse"

\* C14: a load of a sheet that lacks a required column (DATE or one of
\* the 17 categories) ends in a ValueError whose list holds each missing
\* column once and nothing else, and returns no data; a load that returns
\* data read a sheet with all the required columns.
C14_ColonnesManquantesRejetees ==
  LET manq == ColonnesRequises \ fichier.colonnes
  IN /\ (donnees.etat # "vide" /\ fichier.existe /\ manq # {}) =>
          /\ donnees.etat = "erreur"
          /\ donnees.erreur = "ValueError"
          /\ Image(donnees.manquantes) = manq
          /\ Len(donnees.manquantes) = Cardinality(manq)
          /\ donnees.appels = << >>
          /\ donnees.hebdomadaire = << >>
     /\ Charge => manq = {}

\* the load of a sheet without DATE and HARCELEMENTS_JOUR has failed
C14_Temoin ==
  /\ donnees.etat = "erreur"
  /\ donnees.erreur = "ValueError"
  /\ donnees.manquantes = << "DATE", "HARCELEMENTS_JOUR" >>
  /\ fichier.lignes # << >>

\* C15: the expanded calendar of a load has one row for every date that
\* lies in a range of the sheet and no other row, and the row of a date
\* carries the week of the first range of the sheet that covers the date.
C15_UneEtiquetteParDate ==
  Charge =>
    LET src == calendrier.lignes
        cal == donnees.calendrier
        couvertes == UNION {src[i].Date_Start..src[i].Date_End : i \in 1..Len(src)}
        Premiere(d) == Min({i \in 1..Len(src) : src[i].Date_Start <= d /\ d <= src[i].Date_End})
    IN /\ {cal[k].DATE : k \in 1..Len(cal)} = couvertes
       /\ Len(cal) = Cardinality(couvertes)
       /\ \A k \in 1..Len(cal) :
            /\ cal[k].Week_No = src[Premiere(cal[k].DATE)].Week_No
            /\ cal[k].Semaine = Etiquette(src[Premiere(cal[k].DATE)].Week_No)

\* two ranges with different week numbers cover the same date, which has
\* the label of the first
C15_Temoin ==
  /\ Charge
  /\ Len(calendrier.lignes) = 2
  /\ calendrier.lignes[1].Week_No # calendrier.lignes[2].Week_No
  /\ \E k \in 1..Len(donnees.calendrier) :
       /\ calendrier.lignes[1].Date_Start <= donnees.calendrier[k].DATE
       /\ donnees.calendrier[k].DATE <= calendrier.lignes[1].Date_End
       /\ calendrier.lignes[2].Date_Start <= donnees.calendrier[k].DATE
       /\ donnees.calendrier[k].DATE <= calendrier.lignes[2].Date_End
       /\ donnees.calendrier[k].Week_No = calendrier.lignes[1].Week_No

\* ISO weeks of the dates of FichiersCalendrier: 2 March 2025 is the Sunday
\* of week 9, 3 and 5 March are in week 10
SemaineISOAttendue == (61 :> 9) @@ (62 :> 10) @@ (64 :> 10)

\* C16: after a load every daily record whose date has a row in the
\* expanded calendar carries the label of that row, every other record
\* carries 'S' + ISO week + '_' + year of its date, and no label is empty.
C16_EtiquetteDuCalendrier ==
  Charge =>
    \A i \in 1..Len(donnees.appels) :
      LET r == donnees.appels[i]
          cal == donnees.calendrier
          lignesCal == {k \in 1..Len(cal) : cal[k].DATE = r.DATE}
      IN /\ r.Semaine # << >>
         /\ lignesCal # {} => \A k \in lignesCal : r.Semaine = cal[k].Semaine
         /\ lignesCal = {} => r.Semaine = Etiquette(SemaineISOAttendue[r.DATE])

\* a sheet with its own week column is loaded: one record took the
\* calendar's label, another, outside the calendar, the ISO label
C16_Temoin ==
  /\ Charge
  /\ COL_SEMAINE \in fichier.colonnes
  /\ \E i, j \in 1..Len(donnees.appels) :
       /\ \E k \in 1..Len(donnees.calendrier) :
            /\ donnees.calendrier[k].DATE = donnees.appels[i].DATE
            /\ donnees.appels[i].Semaine = donnees.calendrier[k].Semaine
            /\ donnees.appels[i].Semaine # EtiquetteSource
       /\ \A k \in 1..Len(donnees.calendrier) :
            donnees.calendrier[k].DATE # donnees.appels[j].DATE
       /\ donnees.appels[j].Semaine = Etiquette(10)

\* position of a month in the calendar year
RangDuMois ==
  ("Janvier" :> 1) @@ ("Fevrier" :> 2) @@ ("Mars" :> 3) @@ ("Avril" :> 4) @@
  ("Mai" :> 5) @@ ("Juin" :> 6) @@ ("Juillet" :> 7) @@ ("Aout" :> 8) @@
  ("Septembre" :> 9) @@ ("Octobre" :> 10) @@ ("Novembre" :> 11) @@ ("Decembre" :> 12)

\* C17: regrouper_par_mois returns its rows in strictly increasing order of
\* calendar month (so no month twice); the row of Janvier sums the weekly
\* rows of weeks 1-4 and the row of Fevrier those of weeks 5-8, such a row
\* being present when the input has such a week; the monthly totals add up
\* to the sum of the weekly totals.
C17_TotauxMensuels ==
  resultat.op = "regrouper_par_mois" =>
    LET mois == resultat.val
        hebdo == donnees.hebdomadaire
        Total(df) == SommeSur([k \in 1..Len(df) |-> df[k].TOTAL_APPELS_SEMAINE], 1..Len(df))
        Numero(k) == extraire_numero_semaine(hebdo[k].Semaine)
        TotalDesSemaines(S) ==
          SommeSur([k \in 1..Len(hebdo) |-> hebdo[k].TOTAL_APPELS_SEMAINE],
                   {k \in 1..Len(hebdo) : Numero(k) \in S})
        LigneDuMois(m, S) ==
          IF \E k \in 1..Len(hebdo) : Numero(k) \in S
            THEN \E i \in 1..Len(mois) :
                   mois[i].Mois = m /\ mois[i].TOTAL_APPELS_SEMAINE = TotalDesSemaines(S)
            ELSE \A i \in 1..Len(mois) : mois[i].Mois # m
    IN /\ \A i, j \in 1..Len(mois) :
            i < j => RangDuMois[mois[i].Mois] < RangDuMois[mois[j].Mois]
       /\ LigneDuMois("Janvier", 1..4)
       /\ LigneDuMois("Fevrier", 5..8)
       /\ Total(mois) = Total(hebdo)

\* the weekly frame holds S10_2025 before S4_2025 (the order of the group
\* keys) and the monthly frame Janvier before Mars
C17_Temoin ==
  /\ resultat.op = "regrouper_par_mois"
  /\ Len(donnees.hebdomadaire) = 2
  /\ donnees.hebdomadaire[1].Semaine = Etiquette(10)
  /\ donnees.hebdomadaire[2].Semaine = Etiquette(4)
  /\ Len(resultat.val) = 2
  /\ resultat.val[1].Mois = "Janvier"
  /\ resultat.val[1].TOTAL_APPELS_SEMAINE = 2
  /\ resultat.val[2].Mois = "Mars"
  /\ resultat.val[2].TOTAL_APPELS_SEMAINE = 1

\* C19: the name of a backup depends only on the stem of the data file and
\* the second of the confirmation, and nothing serialises the uploads: the
\* copy of an upload writes the current workbook under that name whether or
\* not a backup of that name exists, so that an earlier backup of the same
\* second is replaced, and it touches no other backup.
C19_SauvegardeEcrasee ==
  [][\A s \in Sessions :
       (sessions[s].pc = "copier" /\ sessions'[s].pc = "supprimer") =>
         LET n == NomSauvegarde("appels", sessions[s].ts)
         IN /\ sessions[s].ts <= horloge
            /\ DOMAIN sauvegardes' = DOMAIN sauvegardes \cup {n}
            /\ sauvegardes'[n] = fichier
            /\ \A m \in DOMAIN sauvegardes \ {n} : sauvegardes'[m] = sauvegardes[m]]_vars

\* within one second of the clock the workbook the application started
\* with was replaced and backed up, and its backup was then overwritten:
\* every upload is over and no backup holds its content
C19_Temoin ==
  /\ horloge = 0
  /\ \A s \in Sessions : ~EnCours(sessions[s].pc)
  /\ fichier.existe
  /\ fichier # FichierInitial
  /\ sauvegardes # << >>
  /\ \A n \in DOMAIN sauvegardes : sauvegardes[n] # FichierInitial

\* C20: the step of a confirmed daily-calls upload that writes the uploaded
\* workbook leaves it at the path the loader reads, and the step that
\* completes the upload leaves the cache empty.
C20_ChargeurLitLeTeleversement ==
  [][\A s \in Sessions :
       /\ (sessions[s].pc = "ecrire" /\ sessions'[s].pc = "vider_cache") =>
            fichier' = sessions[s].televerse
       /\ (sessions[s].pc = "vider_cache" /\ sessions'[s].pc = "termine") =>
            donnees' = DonneesVides]_vars

\* the labels of the steps of a confirmed upload, per tab
ETAPES_APPELS == << "verifier", "copier", "supprimer", "ecrire", "vider_cache" >>

ETAPES_CALENDRIER ==
  << "cal_verifier", "cal_copier", "cal_supprimer", "cal_ecrire", "cal_vider_cache" >>

\* the steps of the upload of session s on the workbook f (fp after the
\* step) follow the order e: copy, delete, write, clear the cache
OrdreEtapes(s, e, stem, f, fp) ==
  LET a == sessions[s].pc
      b == sessions'[s].pc
      n == NomSauvegarde(stem, sessions[s].ts)
  IN /\ (a = e[1] /\ b # a) => b \in {e[2], e[4]}
     /\ (a = e[2] /\ b # a) => b \in {e[3], "erreur"}
     /\ (a = e[3] /\ b # a) => b \in {e[4], "erreur"}
     /\ (a = e[4] /\ b # a) => b = e[5]
     /\ (a = e[5] /\ b # a) => b = "termine"
     /\ (a = e[1] /\ b = e[4]) => ~(sessions[s].detecte /\ f.existe)
     /\ (a = e[2] /\ b = e[3]) =>
          /\ n \in DOMAIN sauvegardes'
          /\ sauvegardes'[n] = f
          /\ fp = f
     /\ (a = e[3] /\ b = e[4]) =>
          /\ n \in DOMAIN sauvegardes
          /\ f.existe
          /\ ~fp.existe
     /\ (a = e[4] /\ b = e[5]) =>
          /\ fp = sessions[s].televerse \/ sessions[s].televerse \in annexes'
          /\ donnees' = donnees
     /\ (a = e[5] /\ b = "termine") => donnees' = DonneesVides

\* C18: a confirmed upload, of a daily-calls workbook or of a calendar
\* workbook, runs its steps in the order copy the backup, delete the
\* original, write the new workbook, clear the cache: a workbook is deleted
\* only by an upload whose backup is written, the cache is emptied only by
\* an upload that has written its workbook.
C18_OrdreDesEtapes ==
  [][/\ \A s \in Sessions :
          /\ OrdreEtapes(s, ETAPES_APPELS, "appels", fichier, fichier')
          /\ OrdreEtapes(s, ETAPES_CALENDRIER, "calendrier", calendrier, calendrier')
     /\ (fichier.existe /\ ~fichier'.existe) =>
          \E s \in Sessions :
            sessions[s].pc = "supprimer" /\ sessions'[s].pc = "ecrire"
     /\ (calendrier.existe /\ ~calendrier'.existe) =>
          \E s \in Sessions :
            sessions[s].pc = "cal_supprimer" /\ sessions'[s].pc = "cal_ecrire"
     /\ (donnees # DonneesVides /\ donnees' = DonneesVides) =>
          \E s \in Sessions :
            /\ sessions[s].pc \in {"vider_cache", "cal_vider_cache"}
            /\ sessions'[s].pc = "termine"]_vars

\* one session has completed the upload of a daily-calls workbook and the
\* other the upload of a calendar: both originals are in the backups, both
\* new workbooks are in place and the cache is empty
C18_Temoin ==
  /\ \A s \in Sessions : sessions[s].pc = "termine"
  /\ \E s \in Sessions : fichier = sessions[s].televerse
  /\ \E s \in Sessions : calendrier = sessions[s].televerse
  /\ NomSauvegarde("appels", 0) \in DOMAIN sauvegardes
  /\ sauvegardes[NomSauvegarde("appels", 0)] = FichierInitial
  /\ NomSauvegarde("calendrier", 0) \in DOMAIN sauvegardes
  /\ sauvegardes[NomSauvegarde("calendrier", 0)] = CalendrierInitial
  /\ donnees = DonneesVides

\* the week given to the generator for a period without record (line 465)
SEMAINE_CUSTOM == << "C", "U", "S", "T", "O", "M" >>

RapportPresent == rapport.rapport_genere.defini /\ rapport.sortie.ok

\* C22: every report the generator returns has 7 slides.
C22_SeptSlides ==
  RapportPresent => Len(rapport.sortie.slides) = 7

\* the sums of the categories of group g that are positive over the frame,
\* by display label
CamembertAttendu(g, df) ==
  LET retenues == {c \in Image(REGROUPEMENTS[g]) : SommeColonne(df, c) > 0}
  IN [l \in {LABELS_CATEGORIES[c] : c \in retenues} |->
        SommeColonne(df, CHOOSE c \in retenues : LABELS_CATEGORIES[c] = l)]

\* C23: the three pie charts of slide 2 of a report for a week receive,
\* for each category of the group 'Renseignements Sante', 'Assistances
\* Medicales' and 'Signaux' whose sum over the week is positive, the label
\* of the category mapped to that sum.
C23_CamembertsParGroupe ==
  (RapportPresent /\ rapport.rapport_genere.mode = "semaine") =>
    LET df_semaine == LignesDeSemaine(donnees.appels, rapport.sortie.semaine)
    IN /\ rapport.sortie.renseignements_data =
            CamembertAttendu("Renseignements Sante", df_semaine)
       /\ rapport.sortie.assistance_data =
            CamembertAttendu("Assistances Medicales", df_semaine)
       /\ rapport.sortie.signaux_data = CamembertAttendu("Signaux", df_semaine)

\* C27: when the daily records hold a week whose number is below the
\* number of the week of the report, slide 3 is in the report and compares
\* the week of the report with the nearest of those weeks.
C27_SemainePrecedenteNumerique ==
  RapportPresent =>
    LET w == rapport.sortie.semaine
        avant == {v \in SemainesDe(donnees.appels) :
                    extraire_numero_semaine(v) < extraire_numero_semaine(w)}
    IN avant # {} =>
         /\ \E k \in 1..Len(rapport.sortie.slides) : rapport.sortie.slides[k] = 3
         /\ rapport.sortie.semaine_precedente \in avant
         /\ \A v \in avant : extraire_numero_semaine(v) <=
                               extraire_numero_semaine(rapport.sortie.semaine_precedente)

\* C29: the total of a report for a custom period is the sum of the totals
\* of the daily records whose date lies in the period.
C29_TotalDeLaPeriode ==
  (RapportPresent /\ rapport.rapport_genere.mode = "periode") =>
    rapport.sortie.total =
      SommeTotal(SelectSeq(donnees.appels,
                   LAMBDA l : /\ l.DATE >= rapport.rapport_genere.debut
                              /\ l.DATE <= rapport.rapport_genere.fin))

\* C24: settings defines 17 categories and 5 groups; every category is
\* listed once, in one group, and the groups list nothing else.  The group
\* sums of a week therefore add up to the sum of its 17 category columns.
C24_PartitionDesCategories ==
  /\ Len(CATEGORIES_APPELS) = 17
  /\ Cardinality(CatSet) = 17
  /\ Cardinality(DOMAIN REGROUPEMENTS) = 5
  /\ DOMAIN REGROUPEMENTS = Image(GROUPES)
  /\ \A g \in DOMAIN REGROUPEMENTS : Image(REGROUPEMENTS[g]) \subseteq CatSet
  /\ \A c \in CatSet :
       Cardinality({ gi \in (DOMAIN REGROUPEMENTS) \X (1..17) :
                       /\ gi[2] <= Len(REGROUPEMENTS[gi[1]])
                       /\ REGROUPEMENTS[gi[1]][gi[2]] = c }) = 1
  /\ (resultat.op = "calculer_totaux_semaine" /\ resultat.val.ok) =>
       LET df_semaine == LignesDeSemaine(donnees.appels, resultat.args[1])
           reg == resultat.val.regroupements
       IN SommeSeq([k \in 1..Len(GROUPES) |-> reg[LABELS_REGROUPEMENTS[GROUPES[k]]]])
            = SommeSeq([k \in 1..Len(CATEGORIES_APPELS) |->
                          SommeColonne(df_semaine, CATEGORIES_APPELS[k])])

\* the totals of a week with a call in each of two groups
C24_Temoin ==
  /\ resultat.op = "calculer_totaux_semaine"
  /\ resultat.val.ok
  /\ resultat.val.regroupements["Renseignements Sante"] = 1
  /\ resultat.val.regroupements["Assistances Medicales"] = 1
  /\ resultat.val.regroupements["Autres Appels"] = 0

\* the position of the first '_' of a string that has one
PremierSouligne(c) == Min({i \in 1..Len(c) : c[i] = "_"})

ToutChiffres(c) == c # << >> /\ \A i \in 1..Len(c) : EstChiffre(c[i])

\* a string of the form S<n>_<year>
EstEtiquette(c) ==
  /\ \E i \in 1..Len(c) : c[i] = "_"
  /\ c[1] = "S"
  /\ ToutChiffres(SubSeq(c, 2, PremierSouligne(c) - 1))
  /\ ToutChiffres(SubSeq(c, PremierSouligne(c) + 1, Len(c)))

\* the n of a string of the form S<n>_<year>
NumeroEtiquette(c) == IntDeChiffres(SubSeq(c, 2, PremierSouligne(c) - 1))

\* C25 as stated: extraire_numero_semaine returns n for every label of the
\* form S<n>_<year> and 0 for every other value.
C25_ZeroHorsEtiquette ==
  resultat.op = "extraire_numero_semaine" =>
    LET v == resultat.args[1]
    IN IF v.str /\ EstEtiquette(v.car)
         THEN resultat.val = NumeroEtiquette(v.car)
         ELSE resultat.val = 0

\* C25, amended: extraire_numero_semaine returns n for every label of the
\* form S<n>_<year>; for any other value it returns 0 when the value is not
\* a string, has no '_', or has no digit before its first '_', and
\* otherwise the number written by the digits before the first '_'
\* ('10_2025' and 's10_2025' give 10).
C25_NumeroAvantSouligne ==
  resultat.op = "extraire_numero_semaine" =>
    LET v == resultat.args[1]
        chiffres == SelectSeq(SubSeq(v.car, 1, PremierSouligne(v.car) - 1), EstChiffre)
    IN /\ (v.str /\ EstEtiquette(v.car)) => resultat.val = NumeroEtiquette(v.car)
       /\ IF ~v.str \/ ~(\E i \in 1..Len(v.car) : v.car[i] = "_")
            THEN resultat.val = 0
            ELSE resultat.val = IntDeChiffres(chiffres)

\* the number of 'S10_2025' has been extracted
C25_Temoin ==
  /\ resultat.op = "extraire_numero_semaine"
  /\ resultat.args[1] = [str |-> TRUE, car |-> Etiquette(10)]
  /\ resultat.val = 10

\* the year of a label S<n>_<year>
AnneeEtiquette(c) == IntDeChiffres(SubSeq(c, PremierSouligne(c) + 1, Len(c)))

\* week a is before week b in time
AvantDansLeTemps(a, b) ==
  \/ AnneeEtiquette(a) < AnneeEtiquette(b)
  \/ /\ AnneeEtiquette(a) = AnneeEtiquette(b)
     /\ NumeroEtiquette(a) < NumeroEtiquette(b)

\* C26: obtenir_derniere_semaine returns the latest week of the frame in
\* time, and obtenir_semaine_precedente the week of the frame just before
\* the given one in time (None when there is none or the week is not in
\* the frame), labels of several years included.
C26_OrdreChronologique ==
  LET dispo == Image(resultat.args[1])
      w == resultat.args[2]
      avant == {v \in dispo : AvantDansLeTemps(v, w)}
  IN /\ (resultat.op = "obtenir_derniere_semaine" /\ dispo # {}) =>
          /\ resultat.val \in dispo
          /\ \A v \in dispo \ {resultat.val} : AvantDansLeTemps(v, resultat.val)
     /\ resultat.op = "obtenir_semaine_precedente" =>
          IF w \in dispo /\ avant # {}
            THEN /\ resultat.val \in avant
                 /\ \A v \in avant \ {resultat.val} : AvantDansLeTemps(v, resultat.val)
            ELSE resultat.val = AucuneSemaine

\* the steps of a calendar upload the page has accepted
ETAPES_ACCEPTEES ==
  {"cal_valide", "cal_verifier", "cal_copier", "cal_supprimer", "cal_ecrire",
   "cal_vider_cache"}

\* C28: a calendar workbook the upload page accepts is one
\* charger_calendrier_epidemiologique loads, and with the calendar
\* workbook in place no full load fails on its content.
C28_CalendrierAccepteChargeable ==
  /\ \A s \in Sessions :
       sessions[s].pc \in ETAPES_ACCEPTEES =>
         charger_calendrier_epidemiologique(sessions[s].televerse).ok
  /\ (calendrier.existe /\ donnees.etat = "erreur") =>
       donnees.erreur = "FileNotFoundError"

\* C30: during an upload of a daily-calls workbook the data path always
\* holds a workbook (the previous one or the new one), and no load that
\* runs between the steps of the upload fails because the file is missing.
C30_CheminToujoursComplet ==
  /\ fichier.existe
  /\ (donnees.etat = "erreur" => donnees.erreur # "FileNotFoundError")

====
